---- MODULE Spec2Model ----
(***************************************************************************)
(* A model of the peer-to-peer session stack of bevy_kart:                 *)
(*   bevy_webrtc         connection manager (browser peer connections)     *)
(*   bevy_firestore_p2p  signaling client and transport systems            *)
(*   bevy_easy_p2p       session state machine, router, codec, registries, *)
(*                       update queue                                      *)
(* Every Bevy system is one action that consumes the messages pending for  *)
(* its readers and writes the messages its writers emit.  Systems of one   *)
(* instance and of different instances interleave freely; a system with    *)
(* nothing to read is not run.                                             *)
(***************************************************************************)
EXTENDS Integers, Sequences, FiniteSets, Bags, TLC

\* The participating browser instances.
Inst == {"h", "a", "b"}

----------------------------------------------------------------------------
\* Generic helpers

Last(s) == s[Len(s)]

FoldLeft(Op(_, _), base, s) ==
    LET f[k \in 0..Len(s)] == IF k = 0 THEN base ELSE Op(f[k - 1], s[k])
    IN  f[Len(s)]

SelectAll(s, Test(_)) == SelectSeq(s, Test)

MapSeq(s, F(_)) == [k \in 1..Len(s) |-> F(s[k])]

SeqToSet(s) == {s[k] : k \in 1..Len(s)}

\* HashMap helpers
EmptyMap == [x \in {} |-> 0]
MapPut(f, k, v) == [x \in DOMAIN f \cup {k} |-> IF x = k THEN v ELSE f[x]]
MapDel(f, k) == [x \in DOMAIN f \ {k} |-> f[x]]

None == <<"None">>
Some(x) == <<"Some", x>>
IsSome(o) == o[1] = "Some"
Unwrap(o) == o[2]

----------------------------------------------------------------------------
\* state.rs: identities, roster entries, wire messages

\* enum NetworkedId { Host, ClientId(u64) }
Host == <<"Host">>
ClientId(n) == <<"ClientId", n>>
IsClientId(id) == id[1] = "ClientId"

\* enum P2PLobbyState
OutOfLobby == "OutOfLobby"
JoiningLobby == "JoiningLobby"
InLobby == "InLobby"

\* struct PlayerInfo { id, data }
PlayerInfo(id, data) == [id |-> id, data |-> data]

\* enum P2PData
ClientLobbyChatMessage(text, sender) ==
    [k |-> "ClientLobbyChatMessage", text |-> text, sender |-> sender]
ClientInput(input) == [k |-> "ClientInput", input |-> input]
ClientDataUpdate(data) == [k |-> "ClientDataUpdate", data |-> data]
HostLobbyInfoUpdate(players) == [k |-> "HostLobbyInfoUpdate", players |-> players]
StateSync(index, payload) == [k |-> "StateSync", index |-> index, payload |-> payload]
EventSync(index, payload) == [k |-> "EventSync", index |-> index, payload |-> payload]
HostInstantiation(inst) == [k |-> "HostInstantiation", inst |-> inst]
PingRequest(timestamp) == [k |-> "PingRequest", timestamp |-> timestamp]

\* PlayerData::default()
DefaultPlayerData == 0

\* EasyP2PState::default()
DefaultState ==
    [local_player_data |-> DefaultPlayerData, is_host |-> FALSE,
     lobby_code |-> "", players |-> <<>>]

\* EasyP2PState::get_players
get_players(st, add_host) ==
    (IF add_host THEN <<PlayerInfo(Host, st.local_player_data)>> ELSE <<>>)
        \o st.players

----------------------------------------------------------------------------
\* updates.rs: the consumer-facing events

LobbyCreated(code) == [u |-> "LobbyCreated", code |-> code]
LobbyJoined(code) == [u |-> "LobbyJoined", code |-> code]
LobbyEntered(code) == [u |-> "LobbyEntered", code |-> code]
LobbyExited(reason) == [u |-> "LobbyExited", reason |-> reason]
HostChat(text) == [u |-> "HostChat", text |-> text]
ClientChat(client_id, text) == [u |-> "ClientChat", client_id |-> client_id, text |-> text]
RosterUpdated(players) == [u |-> "RosterUpdated", players |-> players]

\* enum ExitReason
Disconnected == "Disconnected"
Kicked == "Kicked"

----------------------------------------------------------------------------
\* The wire codec.  serde_json renders a value as a JSON text; a text is
\* modelled as the tree of its tokens.  Decoding checks the kind of every token
\* and the shape the target type expects, and fails on anything else.

\* f32: a finite number, or one of the non-finite values
Finite(v) == [class |-> "finite", v |-> v]
NaN == [class |-> "nan", v |-> 0]
Infinity == [class |-> "infinite", v |-> 0]

\* serde_json writes a non-finite float as null, and reads no float from null
EncodeF32(f) == IF f.class = "finite" THEN <<"number", f.v>> ELSE <<"null">>
DecodeF32(t) == IF t[1] = "number" THEN Some(Finite(t[2])) ELSE None

\* [f32; N]
EncodeF32s(fs) == <<"array", [k \in 1..Len(fs) |-> EncodeF32(fs[k])]>>
DecodeF32s(t, n) ==
    IF t[1] = "array" /\ Len(t[2]) = n /\ \A k \in 1..n : IsSome(DecodeF32(t[2][k]))
    THEN Some([k \in 1..n |-> Unwrap(DecodeF32(t[2][k]))]) ELSE None

EncodeString(x) == <<"string", x>>
DecodeString(t) == IF t[1] = "string" THEN Some(t[2]) ELSE None

\* u8 and u64
EncodeUnsigned(n) == <<"number", n>>
DecodeUnsigned(t) == IF t[1] = "number" THEN Some(t[2]) ELSE None

\* enum NetworkedId: "Host" or {"ClientId": n}
EncodeNetworkedId(id) ==
    IF id = Host THEN <<"string", "Host">> ELSE <<"object", "ClientId", EncodeUnsigned(id[2])>>
DecodeNetworkedId(t) ==
    IF t[1] = "string" THEN (IF t[2] = "Host" THEN Some(Host) ELSE None)
    ELSE IF t[1] = "object" /\ t[2] = "ClientId" /\ IsSome(DecodeUnsigned(t[3]))
    THEN Some(ClientId(Unwrap(DecodeUnsigned(t[3]))))
    ELSE None

\* struct AppPlayerData { name }
EncodePlayerData(d) == <<"object", "name", EncodeString(d)>>
DecodePlayerData(t) ==
    IF t[1] = "object" /\ t[2] = "name" /\ IsSome(DecodeString(t[3]))
    THEN Some(Unwrap(DecodeString(t[3]))) ELSE None

\* struct AppPlayerInputData { forward, backward, left, right }
EncodeInput(x) ==
    <<"object", "forward", <<"bool", x.forward>>, "backward", <<"bool", x.backward>>,
      "left", <<"bool", x.left>>, "right", <<"bool", x.right>>>>
DecodeInput(t) ==
    IF /\ t[1] = "object" /\ Len(t) = 9
       /\ t[2] = "forward" /\ t[4] = "backward" /\ t[6] = "left" /\ t[8] = "right"
       /\ \A k \in {3, 5, 7, 9} : t[k][1] = "bool"
    THEN Some([forward |-> t[3][2], backward |-> t[5][2], left |-> t[7][2],
               right |-> t[9][2]])
    ELSE None

\* struct PlayerInfo { id, data } and Vec<PlayerInfo>
EncodePlayerInfo(p) ==
    <<"object", "id", EncodeNetworkedId(p.id), "data", EncodePlayerData(p.data)>>
DecodePlayerInfo(t) ==
    IF /\ t[1] = "object" /\ Len(t) = 5 /\ t[2] = "id" /\ t[4] = "data"
       /\ IsSome(DecodeNetworkedId(t[3])) /\ IsSome(DecodePlayerData(t[5]))
    THEN Some(PlayerInfo(Unwrap(DecodeNetworkedId(t[3])), Unwrap(DecodePlayerData(t[5]))))
    ELSE None
EncodePlayers(ps) == <<"array", [k \in 1..Len(ps) |-> EncodePlayerInfo(ps[k])]>>
DecodePlayers(t) ==
    IF t[1] = "array" /\ \A k \in 1..Len(t[2]) : IsSome(DecodePlayerInfo(t[2][k]))
    THEN Some([k \in 1..Len(t[2]) |-> Unwrap(DecodePlayerInfo(t[2][k]))]) ELSE None

\* struct NetTransform { translation: [f32; 3], rotation: [f32; 4], scale: [f32; 3] }
EncodeNetTransform(x) ==
    <<"object", "translation", EncodeF32s(x.translation), "rotation", EncodeF32s(x.rotation),
      "scale", EncodeF32s(x.scale)>>
DecodeNetTransform(t) ==
    IF /\ t[1] = "object" /\ Len(t) = 7
       /\ t[2] = "translation" /\ t[4] = "rotation" /\ t[6] = "scale"
       /\ IsSome(DecodeF32s(t[3], 3)) /\ IsSome(DecodeF32s(t[5], 4))
       /\ IsSome(DecodeF32s(t[7], 3))
    THEN Some([translation |-> Unwrap(DecodeF32s(t[3], 3)),
               rotation |-> Unwrap(DecodeF32s(t[5], 4)),
               scale |-> Unwrap(DecodeF32s(t[7], 3))])
    ELSE None

\* struct InstantiationDataNet { transform, instantiation }, with
\* enum AppInstantiations { Kart(NetworkedId) }
EncodeInstantiation(x) ==
    <<"object", "transform", EncodeNetTransform(x.transform),
      "instantiation", <<"object", "Kart", EncodeNetworkedId(x.instantiation[2])>>>>
DecodeInstantiation(t) ==
    IF /\ t[1] = "object" /\ Len(t) = 5 /\ t[2] = "transform" /\ t[4] = "instantiation"
       /\ IsSome(DecodeNetTransform(t[3]))
       /\ t[5][1] = "object" /\ t[5][2] = "Kart" /\ IsSome(DecodeNetworkedId(t[5][3]))
    THEN Some([transform |-> Unwrap(DecodeNetTransform(t[3])),
               instantiation |-> <<"Kart", Unwrap(DecodeNetworkedId(t[5][3]))>>])
    ELSE None

\* serde_json::to_string(&P2PData): the variant name, then its fields
EncodeP2PData(m) ==
    CASE m.k = "ClientLobbyChatMessage" ->
            <<"ClientLobbyChatMessage", EncodeString(m.text), EncodeNetworkedId(m.sender)>>
      [] m.k = "ClientInput" -> <<"ClientInput", EncodeInput(m.input)>>
      [] m.k = "ClientDataUpdate" -> <<"ClientDataUpdate", EncodePlayerData(m.data)>>
      [] m.k = "HostLobbyInfoUpdate" -> <<"HostLobbyInfoUpdate", EncodePlayers(m.players)>>
      [] m.k = "StateSync" ->
            <<"StateSync", EncodeUnsigned(m.index), EncodeString(m.payload)>>
      [] m.k = "EventSync" ->
            <<"EventSync", EncodeUnsigned(m.index), EncodeString(m.payload)>>
      [] m.k = "HostInstantiation" -> <<"HostInstantiation", EncodeInstantiation(m.inst)>>
      [] m.k = "PingRequest" -> <<"PingRequest", EncodeF32(m.timestamp)>>

\* serde_json::from_str::<P2PData>
DecodeP2PData(t) ==
    IF Len(t) = 3 /\ t[1] = "ClientLobbyChatMessage"
        THEN IF IsSome(DecodeString(t[2])) /\ IsSome(DecodeNetworkedId(t[3]))
             THEN Some(ClientLobbyChatMessage(Unwrap(DecodeString(t[2])),
                                              Unwrap(DecodeNetworkedId(t[3]))))
             ELSE None
    ELSE IF Len(t) = 2 /\ t[1] = "ClientInput"
        THEN IF IsSome(DecodeInput(t[2])) THEN Some(ClientInput(Unwrap(DecodeInput(t[2]))))
             ELSE None
    ELSE IF Len(t) = 2 /\ t[1] = "ClientDataUpdate"
        THEN IF IsSome(DecodePlayerData(t[2]))
             THEN Some(ClientDataUpdate(Unwrap(DecodePlayerData(t[2])))) ELSE None
    ELSE IF Len(t) = 2 /\ t[1] = "HostLobbyInfoUpdate"
        THEN IF IsSome(DecodePlayers(t[2]))
             THEN Some(HostLobbyInfoUpdate(Unwrap(DecodePlayers(t[2])))) ELSE None
    ELSE IF Len(t) = 3 /\ t[1] = "StateSync"
        THEN IF IsSome(DecodeUnsigned(t[2])) /\ IsSome(DecodeString(t[3]))
             THEN Some(StateSync(Unwrap(DecodeUnsigned(t[2])), Unwrap(DecodeString(t[3]))))
             ELSE None
    ELSE IF Len(t) = 3 /\ t[1] = "EventSync"
        THEN IF IsSome(DecodeUnsigned(t[2])) /\ IsSome(DecodeString(t[3]))
             THEN Some(EventSync(Unwrap(DecodeUnsigned(t[2])), Unwrap(DecodeString(t[3]))))
             ELSE None
    ELSE IF Len(t) = 2 /\ t[1] = "HostInstantiation"
        THEN IF IsSome(DecodeInstantiation(t[2]))
             THEN Some(HostInstantiation(Unwrap(DecodeInstantiation(t[2])))) ELSE None
    ELSE IF Len(t) = 2 /\ t[1] = "PingRequest"
        THEN IF IsSome(DecodeF32(t[2])) THEN Some(PingRequest(Unwrap(DecodeF32(t[2]))))
             ELSE None
    ELSE None

\* u64::to_string and str::parse::<u64>: a decimal text is the 1-tuple of its value
u64_to_string(n) == <<n>>
str_parse_u64(s) == IF Len(s) = 1 THEN Some(s[1]) ELSE None

----------------------------------------------------------------------------
\* Message channels.  One queue per (message type, reader): a message type
\* read by two systems has one queue per reader, and a write appends to both.

Chans ==
    { "OnCreateLobbyReq", "OnJoinLobbyReq", "OnKickReq",
      "OnExitLobbyReq@state_update_system", "OnExitLobbyReq@handle_exit_requests",
      "OnSendToHostReq", "OnSendToAllReq", "OnSendToClientReq", "OnRelayToAllExcept",
      "OnTransportSendToHost", "OnTransportSendToAll", "OnTransportSendToClient",
      "OnTransportRelayToAllExcept",
      "OnLobbyCreated", "OnLobbyJoined",
      "OnLobbyEntered@state_update_system", "OnLobbyEntered@send_local_data_after_enter",
      "OnLobbyExit@on_external_lobby_exit", "OnLobbyExit@on_lobby_exit_cleanup",
      "OnTransportRosterChanged",
      "OnTransportIncomingFromClient", "OnTransportIncomingFromHost",
      "OnInternalClientData@intercept_data_messages",
      "OnInternalClientData@handle_client_data_update_on_host",
      "OnInternalHostData",
      "CreateOffer", "CreateAnswer", "SetRemote", "SendData", "LocalSdpReady",
      "IncomingData", "ConnectionOpen", "CloseConnection", "CloseAllConnections",
      "ConnectionClosed" }

OnExitLobbyReq == {"OnExitLobbyReq@state_update_system", "OnExitLobbyReq@handle_exit_requests"}
OnLobbyEntered ==
    {"OnLobbyEntered@state_update_system", "OnLobbyEntered@send_local_data_after_enter"}
OnLobbyExit == {"OnLobbyExit@on_external_lobby_exit", "OnLobbyExit@on_lobby_exit_cleanup"}
OnInternalClientData ==
    {"OnInternalClientData@intercept_data_messages",
     "OnInternalClientData@handle_client_data_update_on_host"}

\* MessageWriter::write of the messages xs to every reader queue in cs
Write(m, cs, xs) == [c \in Chans |-> IF c \in cs THEN m[c] \o xs ELSE m[c]]
\* MessageReader::read to the end: the reader has consumed its queue
Read(m, cs) == [c \in Chans |-> IF c \in cs THEN <<>> ELSE m[c]]

----------------------------------------------------------------------------
VARIABLES
    state,        \* EasyP2PState resource of each instance
    lobby_state,  \* State<P2PLobbyState>
    host_flag,    \* IsHost resource
    updates,      \* EasyP2PUpdateQueue.queue
    msgs,         \* pending Bevy messages, per reader
    sig,          \* SignalingState
    shared,       \* FirestoreShared
    inbox,        \* FIRESTORE_INBOX (thread local of the instance)
    id_alloc,     \* ConnectionIdAllocator
    net_conns,    \* the NetConnection entities
    ctx,          \* RtcContext.conns
    browser,      \* the browser's RTCPeerConnection / RTCDataChannel objects
    tasks,        \* futures handed to spawn_local and not yet completed
    docs,         \* the rooms collection of the document store
    rng,          \* Math.random: the next room code and the next client id it yields
    app,          \* the registered application state: State<S> and Local<Option<S>>
    budget,       \* inputs the environment may still issue
    frame,        \* the instance whose Update schedule is running, and the systems it ran
    log           \* history of observable events, for stating the properties

sesV == <<state, lobby_state, host_flag, updates>>
trV == <<sig, shared, inbox, id_alloc, net_conns>>
rtcV == <<ctx, browser>>
envV == <<tasks, docs, rng>>
vars == <<state, lobby_state, host_flag, updates, msgs, sig, shared, inbox, id_alloc,
          net_conns, ctx, browser, tasks, docs, rng, app, budget, frame, log>>

----------------------------------------------------------------------------
\* The Update schedule.  An instance runs each of its systems once per frame,
\* in an order the executor chooses; a system with nothing to do is not shown.
\* The frames of the instances, the completions of the futures and the calls
\* of the application do not overlap.

\* the system has not run in this frame
Run(i, name) ==
    /\ frame.turn \in {"-", i}
    /\ name \notin frame.ran
    /\ frame' = [turn |-> i, ran |-> frame.ran \cup {name}]

\* state_update_system is chained before the other systems of the Core set
RunCore(i, name) ==
    LET m == msgs[i]
        pending == Len(m["OnLobbyCreated"]) + Len(m["OnLobbyJoined"])
                       + Len(m["OnLobbyEntered@state_update_system"])
                       + Len(m["OnExitLobbyReq@state_update_system"])
    IN  /\ frame.turn \in {"-", i}
        /\ name \notin frame.ran
        /\ "state_update_system" \in frame.ran \/ pending = 0
        /\ frame' = [turn |-> i, ran |-> frame.ran \cup {name, "state_update_system"}]

\* between two frames
Idle == frame.turn = "-" /\ UNCHANGED frame

\* the frame ends when every system has run
frame_end(i, busy) ==
    /\ frame.turn = i
    /\ ~busy
    /\ frame' = [turn |-> "-", ran |-> {}]
    /\ UNCHANGED <<sesV, msgs, trV, rtcV, envV, app, budget, log>>

\* the systems that ran in the step
Ran(i, name) == frame'.turn = i /\ name \in frame'.ran \ frame.ran

\* the messages written to channel c of i in the step
Routed(i, c) == SubSeq(msgs'[i][c], Len(msgs[i][c]) + 1, Len(msgs'[i][c]))

----------------------------------------------------------------------------
\* updates.rs: the update queue

\* A queue that hands out the newest event first
push_front(queue, item) == <<item>> \o queue

\* EasyP2PUpdateQueue::push
push(queue, update) == Append(queue, update)

PushAll(queue, evs) == FoldLeft(push, queue, evs)

\* EasyP2PUpdateQueue::drain: the items handed to the caller and the queue left
drain(queue) == [items |-> queue, queue |-> <<>>]

----------------------------------------------------------------------------
\* The registered application state type S (App::init_networked_state::<S>)

StateValues == {"OutOfGame", "Game"}
InitialStateValue == "OutOfGame"

\* TypeId::of::<AppState>(); the other types an application registers are 1, 2, ...
AppStateType == 0

\* state.rs: the sync registries.  readers[k] is the type whose decode closure
\* was pushed k-th; counter is a u8.
U8 == 256
wrapping_add(c, n) == (c + n) % U8

\* SyncedStateRegister::default() / SyncedEventRegister::default()
DefaultRegister == [readers |-> <<>>, indexes |-> EmptyMap, counter |-> 0]

\* SyncedStateRegister::register_state::<S>
register_state(reg, S) ==
    IF S \in DOMAIN reg.indexes THEN reg
    ELSE [readers |-> Append(reg.readers, S),
          indexes |-> MapPut(reg.indexes, S, reg.counter),
          counter |-> wrapping_add(reg.counter, 1)]

\* SyncedEventRegister::register_event::<E>
register_event(reg, E) ==
    IF E \in DOMAIN reg.indexes THEN reg
    ELSE [readers |-> Append(reg.readers, E),
          indexes |-> MapPut(reg.indexes, E, reg.counter),
          counter |-> wrapping_add(reg.counter, 1)]

\* the event types the application registers with init_networked_event
OnNetworkedTransformUpdate == 1
OnFinishTimeUpdate == 2

\* the application state after the plugins are built: AppState is the synced
\* state, the two events are the synced events, and no event was emitted
DefaultApp ==
    [cur |-> InitialStateValue, last |-> None,
     states |-> register_state(DefaultRegister, AppStateType),
     events |-> register_event(register_event(DefaultRegister, OnNetworkedTransformUpdate),
                               OnFinishTimeUpdate),
     emitted |-> <<>>]

\* serde_json::to_string(&E) and serde_json::from_str::<E>: the text of a value
\* of one event type is not the text of a value of another
EncodeEvent(E, v) == <<"E", E, v>>
DecodeEvent(E, t) == IF Len(t) = 3 /\ t[1] = "E" /\ t[2] = E THEN Some(t[3]) ELSE None

\* A rendering of the state value that from_str::<S> does not accept
EncodeStateBare(v) == <<v>>

\* serde_json::to_string(&S) and serde_json::from_str::<S>
EncodeState(v) == <<"S", v>>
DecodeState(t) ==
    IF Len(t) = 2 /\ t[1] = "S" /\ t[2] \in StateValues THEN Some(t[2]) ELSE None

----------------------------------------------------------------------------
\* systems.rs of bevy_easy_p2p: the session state machine and the router

Emit(i, evs) == log' = [log EXCEPT !.pushed[i] = @ \o evs]

\* An exit branch that reports the exit to the application
exit_updates_loud(exits) == MapSeq(exits, LAMBDA x : LobbyExited(Disconnected))

\* the updates that state_update_system pushes for the OnExitLobbyReq it reads
exit_updates(exits) == <<>>

state_update_system(i) ==
    LET m == msgs[i]
        created == m["OnLobbyCreated"]
        joined == m["OnLobbyJoined"]
        entered == m["OnLobbyEntered@state_update_system"]
        exits == m["OnExitLobbyReq@state_update_system"]
        s0 == state[i]
        s1 == IF Len(created) > 0
              THEN [s0 EXCEPT !.is_host = TRUE, !.lobby_code = Last(created)] ELSE s0
        s2 == IF Len(joined) > 0
              THEN [s1 EXCEPT !.is_host = FALSE, !.lobby_code = Last(joined)] ELSE s1
        s3 == IF Len(entered) > 0 THEN [s2 EXCEPT !.lobby_code = Last(entered)] ELSE s2
        s4 == IF Len(exits) > 0
              THEN [s3 EXCEPT !.is_host = FALSE, !.lobby_code = "", !.players = <<>>] ELSE s3
        evs == MapSeq(created, LobbyCreated) \o MapSeq(joined, LobbyJoined)
                   \o MapSeq(entered, LobbyEntered) \o exit_updates(exits)
    IN  /\ Len(created) + Len(joined) + Len(entered) + Len(exits) > 0
        /\ state' = [state EXCEPT ![i] = s4]
        /\ host_flag' = [host_flag EXCEPT ![i] =
               IF Len(exits) > 0 THEN FALSE
               ELSE IF Len(joined) > 0 THEN FALSE
               ELSE IF Len(created) > 0 THEN TRUE ELSE @]
        /\ lobby_state' = [lobby_state EXCEPT ![i] =
               IF Len(exits) > 0 THEN OutOfLobby
               ELSE IF Len(entered) > 0 THEN InLobby ELSE @]
        /\ updates' = [updates EXCEPT ![i] = PushAll(@, evs)]
        /\ msgs' = [msgs EXCEPT ![i] =
               Read(m, {"OnLobbyCreated", "OnLobbyJoined",
                        "OnLobbyEntered@state_update_system",
                        "OnExitLobbyReq@state_update_system"})]
        /\ log' = [log EXCEPT !.pushed[i] = @ \o evs,
                              !.entered[i] = IF Len(entered) > 0 THEN Last(entered) ELSE @,
                              !.exited[i] = IF Len(exits) > 0 THEN TRUE ELSE @,
                              !.stale[i] = IF Len(exits) > 0
                                           THEN Len(updates[i]) + Len(evs) ELSE @]
        /\ UNCHANGED <<trV, rtcV, envV, app, budget>>
        /\ Run(i, "state_update_system")

on_external_lobby_exit(i) ==
    LET m == msgs[i]
        r == m["OnLobbyExit@on_external_lobby_exit"]
        reason == Last(r)
    IN  /\ Len(r) > 0
        /\ state' = [state EXCEPT ![i] =
               [@ EXCEPT !.is_host = FALSE, !.lobby_code = "", !.players = <<>>]]
        /\ host_flag' = [host_flag EXCEPT ![i] = FALSE]
        /\ lobby_state' = [lobby_state EXCEPT ![i] = OutOfLobby]
        /\ updates' = [updates EXCEPT ![i] = push(@, LobbyExited(reason))]
        /\ msgs' = [msgs EXCEPT ![i] = Read(m, {"OnLobbyExit@on_external_lobby_exit"})]
        /\ log' = [log EXCEPT !.pushed[i] = Append(@, LobbyExited(reason)),
                              !.exited[i] = TRUE,
                              !.stale[i] = Len(updates[i])]
        /\ UNCHANGED <<trV, rtcV, envV, app, budget>>
        /\ RunCore(i, "on_external_lobby_exit")

\* a host that keeps the entries of the clients that are gone
retain_stale(players, list) == players

\* Vec::retain of the roster against the list of connected client ids
retain(players, list) ==
    SelectSeq(players,
        LAMBDA p: IF IsClientId(p.id) THEN u64_to_string(p.id[2]) \in list ELSE TRUE)

broadcast_roster_on_host(i) ==
    LET m == msgs[i]
        lists == m["OnTransportRosterChanged"]
        step(acc, list) ==
            LET st == [acc.st EXCEPT !.players = retain(@, list)]
                players == get_players(st, st.is_host)
            IN  [st |-> st,
                 out |-> Append(acc.out, HostLobbyInfoUpdate(players)),
                 evs |-> Append(acc.evs, RosterUpdated(players))]
        res == FoldLeft(step, [st |-> state[i], out |-> <<>>, evs |-> <<>>], lists)
    IN  /\ state[i].is_host
        /\ Len(lists) > 0
        /\ state' = [state EXCEPT ![i] = res.st]
        /\ updates' = [updates EXCEPT ![i] = PushAll(@, res.evs)]
        /\ msgs' = [msgs EXCEPT ![i] =
               Write(Read(m, {"OnTransportRosterChanged"}), {"OnSendToAllReq"}, res.out)]
        /\ Emit(i, res.evs)
        /\ UNCHANGED <<lobby_state, host_flag, trV, rtcV, envV, app, budget>>
        /\ RunCore(i, "broadcast_roster_on_host")

\* the roster entry of client cid takes the data, when there is one
SetExisting(players, cid, data) ==
    LET hits == {k \in 1..Len(players) : players[k].id = ClientId(cid)}
    IN  IF hits = {} THEN players
        ELSE LET first == CHOOSE k \in hits : \A j \in hits : k <= j
             IN  [players EXCEPT ![first] = [@ EXCEPT !.data = data]]

\* A host that adds an entry for every update
UpsertAppend(players, cid, data) == Append(players, PlayerInfo(ClientId(cid), data))

\* insert or overwrite by peer id
Upsert(players, cid, data) ==
    IF \E k \in 1..Len(players) : players[k].id = ClientId(cid)
    THEN SetExisting(players, cid, data)
    ELSE Append(players, PlayerInfo(ClientId(cid), data))

handle_client_data_update_on_host(i) ==
    LET m == msgs[i]
        r == m["OnInternalClientData@handle_client_data_update_on_host"]
        step(acc, x) ==
            IF x.data.k = "ClientDataUpdate"
            THEN LET st == [acc.st EXCEPT !.players = Upsert(@, x.cid, x.data.data)]
                     players == get_players(st, st.is_host)
                 IN  [st |-> st,
                      out |-> Append(acc.out, HostLobbyInfoUpdate(players)),
                      evs |-> Append(acc.evs, RosterUpdated(players))]
            ELSE acc
        res == FoldLeft(step, [st |-> state[i], out |-> <<>>, evs |-> <<>>], r)
    IN  /\ state[i].is_host
        /\ Len(r) > 0
        /\ state' = [state EXCEPT ![i] = res.st]
        /\ updates' = [updates EXCEPT ![i] = PushAll(@, res.evs)]
        /\ msgs' = [msgs EXCEPT ![i] =
               Write(Read(m, {"OnInternalClientData@handle_client_data_update_on_host"}),
                     {"OnSendToAllReq"}, res.out)]
        /\ log' = [log EXCEPT
               !.pushed[i] = @ \o res.evs,
               !.latest[i] = FoldLeft(LAMBDA f, x : IF x.data.k = "ClientDataUpdate"
                                                   THEN MapPut(f, x.cid, x.data.data) ELSE f,
                                      @, r)]
        /\ UNCHANGED <<lobby_state, host_flag, trV, rtcV, envV, app, budget>>
        /\ RunCore(i, "handle_client_data_update_on_host")

\* Bevy's message_update_system: a message is dropped two frames after it was
\* written.  Every reader reads to the end in every frame, except the two
\* systems that return before reading while the instance is not host.
message_update_system(i) ==
    LET m == msgs[i]
        unread == {"OnTransportRosterChanged",
                   "OnInternalClientData@handle_client_data_update_on_host"}
    IN  /\ ~state[i].is_host
        /\ \E c \in unread : Len(m[c]) > 0
        /\ msgs' = [msgs EXCEPT ![i] = Read(m, unread)]
        /\ UNCHANGED <<sesV, trV, rtcV, envV, app, budget, log>>
        /\ Run(i, "message_update_system")

IsChat(e) == e.u \in {"ClientChat", "HostChat"}

\* A client that does not look at the index of a sync message
InterceptHostUnchecked(acc, data) ==
    CASE data.k = "StateSync" ->
            IF IsSome(DecodeState(data.payload))
            THEN [acc EXCEPT !.app.cur = Unwrap(DecodeState(data.payload))]
            ELSE acc
      [] data.k = "EventSync" ->
            LET fit == {E \in SeqToSet(acc.app.events.readers) :
                          IsSome(DecodeEvent(E, data.payload))}
            IN  IF fit # {}
                THEN LET E == CHOOSE E \in fit : TRUE
                     IN  [acc EXCEPT !.app.emitted =
                              Append(@, <<E, Unwrap(DecodeEvent(E, data.payload))>>)]
                ELSE acc
      [] OTHER -> acc

\* One OnInternalHostData(data) in intercept_data_messages
InterceptHost(acc, data) ==
    CASE data.k = "ClientLobbyChatMessage" ->
            IF data.sender = Host
            THEN [acc EXCEPT !.evs = Append(@, HostChat(data.text))]
            ELSE [acc EXCEPT !.evs = Append(@, ClientChat(data.sender[2], data.text))]
      [] data.k = "HostLobbyInfoUpdate" ->
            [acc EXCEPT !.st.players = data.players,
                        !.evs = Append(@, RosterUpdated(data.players))]
      [] data.k = "StateSync" ->
            IF /\ data.index < Len(acc.app.states.readers)
               /\ acc.app.states.readers[data.index + 1] = AppStateType
               /\ IsSome(DecodeState(data.payload))
            THEN [acc EXCEPT !.app.cur = Unwrap(DecodeState(data.payload))]
            ELSE acc
      [] data.k = "EventSync" ->
            \* EmitSyncedEvent is queued and applied when the system has run
            IF data.index < Len(acc.app.events.readers)
            THEN LET E == acc.app.events.readers[data.index + 1]
                     value == DecodeEvent(E, data.payload)
                 IN  IF IsSome(value)
                     THEN [acc EXCEPT !.app.emitted = Append(@, <<E, Unwrap(value)>>)]
                     ELSE acc
            ELSE acc
      [] data.k = "HostInstantiation" ->
            [acc EXCEPT !.evs = Append(@, [u |-> "Instantiated", data |-> data.inst])]
      [] OTHER -> acc

\* A host that relays a client's chat message as it arrived, sender tag included
InterceptClientVerbatim(acc, x) ==
    IF x.data.k = "ClientLobbyChatMessage"
    THEN [acc EXCEPT !.evs = Append(@, ClientChat(x.cid, x.data.text)),
                     !.relay = IF acc.st.is_host
                               THEN Append(@, [sender |-> x.cid, data |-> x.data])
                               ELSE @]
    ELSE acc

\* A host that handles what a client sends as a client handles what the host sends
InterceptClientTrusting(acc, x) == InterceptHost(acc, x.data)

\* One OnInternalClientData(cid, data) in intercept_data_messages
InterceptClient(acc, x) ==
    LET data == x.data
    IN  CASE data.k = "ClientLobbyChatMessage" ->
                [acc EXCEPT
                    !.evs = Append(@, ClientChat(x.cid, data.text)),
                    !.relay = IF acc.st.is_host
                              THEN Append(@, [sender |-> x.cid,
                                              data |-> ClientLobbyChatMessage(
                                                           data.text, ClientId(x.cid))])
                              ELSE @]
          [] data.k = "ClientInput" ->
                IF acc.st.is_host
                THEN [acc EXCEPT !.evs = Append(@, [u |-> "ClientInput",
                                                    sender |-> ClientId(x.cid),
                                                    input |-> data.input])]
                ELSE acc
          [] data.k = "ClientDataUpdate" ->
                [acc EXCEPT !.st.players = SetExisting(@, x.cid, data.data)]
          [] data.k = "PingRequest" ->
                IF acc.st.is_host
                THEN [acc EXCEPT !.echo = Append(@, [cid |-> x.cid,
                                                     data |-> PingRequest(data.timestamp)])]
                ELSE acc
          [] OTHER -> acc

intercept_data_messages(i) ==
    LET m == msgs[i]
        fromClient == m["OnInternalClientData@intercept_data_messages"]
        fromHost == m["OnInternalHostData"]
        acc0 == [st |-> state[i], app |-> app[i], evs |-> <<>>, relay |-> <<>>,
                 echo |-> <<>>]
        acc1 == FoldLeft(InterceptClient, acc0, fromClient)
        res == FoldLeft(InterceptHost, acc1, fromHost)
    IN  /\ Len(fromClient) + Len(fromHost) > 0
        /\ state' = [state EXCEPT ![i] = res.st]
        /\ app' = [app EXCEPT ![i] = res.app]
        /\ updates' = [updates EXCEPT ![i] = PushAll(@, res.evs)]
        /\ msgs' = [msgs EXCEPT ![i] =
               Write(Write(Read(m, {"OnInternalClientData@intercept_data_messages",
                                    "OnInternalHostData"}),
                           {"OnRelayToAllExcept"}, res.relay),
                     {"OnSendToClientReq"}, res.echo)]
        /\ log' = [log EXCEPT !.pushed[i] = @ \o res.evs,
                              !.chats[i] = @ \o SelectSeq(res.evs, IsChat)]
        /\ UNCHANGED <<lobby_state, host_flag, trV, rtcV, envV, budget>>
        /\ RunCore(i, "intercept_data_messages")

send_local_data_after_enter(i) ==
    LET m == msgs[i]
        entered == m["OnLobbyEntered@send_local_data_after_enter"]
        out == IF state[i].is_host THEN <<>>
               ELSE MapSeq(entered, LAMBDA c : ClientDataUpdate(state[i].local_player_data))
    IN  /\ Len(entered) > 0
        /\ msgs' = [msgs EXCEPT ![i] =
               Write(Read(m, {"OnLobbyEntered@send_local_data_after_enter"}),
                     {"OnSendToHostReq"}, out)]
        /\ UNCHANGED <<sesV, trV, rtcV, envV, app, budget, log>>
        /\ RunCore(i, "send_local_data_after_enter")

\* Time::elapsed_secs when the one-second timer of send_ping fires
ElapsedValues == {Finite(1)}

\* runs in the frames in which its timer has fired
send_ping(i) ==
    \E now \in ElapsedValues :
        /\ budget.ping[i] > 0
        /\ ~state[i].is_host
        /\ msgs' = [msgs EXCEPT ![i] = Write(@, {"OnSendToHostReq"}, <<PingRequest(now)>>)]
        /\ budget' = [budget EXCEPT !.ping[i] = @ - 1]
        /\ UNCHANGED <<sesV, trV, rtcV, envV, app, log>>
        /\ RunCore(i, "send_ping")

encode_outgoing(i) ==
    LET m == msgs[i]
        to_host == MapSeq(m["OnSendToHostReq"], EncodeP2PData)
        to_all == MapSeq(m["OnSendToAllReq"], EncodeP2PData)
        to_client == MapSeq(m["OnSendToClientReq"],
                        LAMBDA x : [cid |-> x.cid, text |-> EncodeP2PData(x.data)])
        relay == MapSeq(m["OnRelayToAllExcept"],
                        LAMBDA x : [sender |-> x.sender, text |-> EncodeP2PData(x.data)])
        m1 == Read(m, {"OnSendToHostReq", "OnSendToAllReq", "OnSendToClientReq",
                       "OnRelayToAllExcept"})
        m2 == Write(m1, {"OnTransportSendToHost"}, to_host)
        m3 == Write(m2, {"OnTransportSendToAll"}, to_all)
        m4 == Write(m3, {"OnTransportSendToClient"}, to_client)
        m5 == Write(m4, {"OnTransportRelayToAllExcept"}, relay)
    IN  /\ Len(to_host) + Len(to_all) + Len(to_client) + Len(relay) > 0
        /\ msgs' = [msgs EXCEPT ![i] = m5]
        /\ UNCHANGED <<sesV, trV, rtcV, envV, app, budget, log>>
        /\ RunCore(i, "encode_outgoing")

\* A decoder that gives up on the frames of a frame at the first bad one
decode_incoming_strict(i) ==
    LET m == msgs[i]
        from_client == m["OnTransportIncomingFromClient"]
        from_host == m["OnTransportIncomingFromHost"]
        badc == {k \in 1..Len(from_client) : ~IsSome(DecodeP2PData(from_client[k].text))}
        badh == {k \in 1..Len(from_host) : ~IsSome(DecodeP2PData(from_host[k]))}
        okc == SubSeq(from_client, 1,
                      IF badc = {} THEN Len(from_client)
                      ELSE (CHOOSE k \in badc : \A j \in badc : k <= j) - 1)
        okh == SubSeq(from_host, 1,
                      IF badh = {} THEN Len(from_host)
                      ELSE (CHOOSE k \in badh : \A j \in badh : k <= j) - 1)
        ev_client == MapSeq(okc, LAMBDA x : [cid |-> x.cid,
                                             data |-> Unwrap(DecodeP2PData(x.text))])
        ev_host == MapSeq(okh, LAMBDA t : Unwrap(DecodeP2PData(t)))
        m1 == Read(m, {"OnTransportIncomingFromClient", "OnTransportIncomingFromHost"})
        m2 == Write(m1, OnInternalClientData, ev_client)
        m3 == Write(m2, {"OnInternalHostData"}, ev_host)
    IN  /\ Len(from_client) + Len(from_host) > 0
        /\ msgs' = [msgs EXCEPT ![i] = m3]
        /\ UNCHANGED <<sesV, trV, rtcV, envV, app, budget, log>>
        /\ RunCore(i, "decode_incoming")

decode_incoming(i) ==
    LET m == msgs[i]
        from_client == m["OnTransportIncomingFromClient"]
        from_host == m["OnTransportIncomingFromHost"]
        okc == SelectSeq(from_client, LAMBDA x : IsSome(DecodeP2PData(x.text)))
        okh == SelectSeq(from_host, LAMBDA t : IsSome(DecodeP2PData(t)))
        ev_client == MapSeq(okc, LAMBDA x : [cid |-> x.cid,
                                             data |-> Unwrap(DecodeP2PData(x.text))])
        ev_host == MapSeq(okh, LAMBDA t : Unwrap(DecodeP2PData(t)))
        m1 == Read(m, {"OnTransportIncomingFromClient", "OnTransportIncomingFromHost"})
        m2 == Write(m1, OnInternalClientData, ev_client)
        m3 == Write(m2, {"OnInternalHostData"}, ev_host)
    IN  /\ Len(from_client) + Len(from_host) > 0
        /\ msgs' = [msgs EXCEPT ![i] = m3]
        /\ UNCHANGED <<sesV, trV, rtcV, envV, app, budget, log>>
        /\ RunCore(i, "decode_incoming")

\* The index of S in SyncedStateRegister.indexes
IndexOfS(a) ==
    IF AppStateType \in DOMAIN a.states.indexes
    THEN Some(a.states.indexes[AppStateType]) ELSE None

\* a host that takes every tick for a change
unchanged_never(last, current_value) == FALSE

\* last.as_ref().map(|v| v == &current_value).unwrap_or(false)
unchanged(last, current_value) == IsSome(last) /\ Unwrap(last) = current_value

host_broadcast_state_change(i) ==
    LET a == app[i]
        current_value == a.cur
        payload == EncodeP2PData(StateSync(Unwrap(IndexOfS(a)), EncodeState(current_value)))
    IN  /\ host_flag[i]
        /\ ~unchanged(a.last, current_value)
        /\ app' = [app EXCEPT ![i].last = Some(current_value)]
        /\ msgs' = [msgs EXCEPT ![i] =
               IF IsSome(IndexOfS(a))
               THEN Write(@, {"OnTransportSendToAll"}, <<payload>>) ELSE @]
        /\ log' = [log EXCEPT !.audience[i] = sig[i].joined_clients]
        /\ UNCHANGED <<sesV, trV, rtcV, envV, budget>>
        /\ Run(i, "host_broadcast_state_change")

----------------------------------------------------------------------------
\* bevy_firestore_p2p: signaling state

\* SignalingState::default()
DefaultSig ==
    [room_code |-> "", is_host |-> FALSE, answered_clients |-> {},
     joined_clients |-> {}, client_id |-> None, client_answer_applied |-> FALSE,
     offer_conn |-> None, host_connection_to_client_id |-> EmptyMap,
     client_join_pending |-> FALSE, client_emitted_join |-> FALSE]

\* FirestoreShared::default(); next_allowed_fetch_at_ms is kept relative to now
DefaultShared ==
    [in_flight |-> FALSE, next_allowed_fetch_at_ms |-> 0,
     not_found_logged |-> FALSE, room_exists |-> FALSE]

\* the poll interval and the back-off after a not_found status, in ms
PollIntervalMs == 500
NotFoundBackoffMs == 1500

\* generate_room_code: the k-th code drawn from Math.random
RoomNames == <<"AAAAAA", "BBBBBB", "CCCCCC">>
generate_room_code(k) == RoomNames[k]

\* gen_client_id_num: the k-th client id drawn from Math.random
gen_client_id_num(k) == k

\* the JSON values pushed to FIRESTORE_INBOX
StatusCreated == [__status |-> "created"]
Null == [null |-> TRUE]
RoomDoc(d) == [fields |-> d]
EmptyRoom == [offers |-> EmptyMap, answers |-> EmptyMap]

\* the futures handed to spawn_local
Task(i, t, arg) == [i |-> i, t |-> t, arg |-> arg]
Spawn(bag, ts) == FoldLeft(LAMBDA b, t : b (+) SetToBag({t}), bag, ts)

\* A transport that reports a join as entered when it is requested
EmitOnRequestEager(m, creates, joins, room) ==
    LET m1 == IF creates > 0
              THEN Write(Write(m, {"OnLobbyCreated"}, <<room>>), OnLobbyEntered, <<room>>)
              ELSE m
    IN  IF Len(joins) > 0
        THEN Write(Write(m1, {"OnLobbyJoined"}, <<Last(joins)>>), OnLobbyEntered,
                   <<Last(joins)>>)
        ELSE m1

\* emit_lobby_created and emit_lobby_entered of the create branch; the join
\* branch emits nothing
EmitOnRequest(m, creates, joins, room) ==
    IF creates > 0
    THEN Write(Write(m, {"OnLobbyCreated"}, <<room>>), OnLobbyEntered, <<room>>)
    ELSE m

handle_create_join_requests(i) ==
    LET m == msgs[i]
        creates == Len(m["OnCreateLobbyReq"])
        joins == m["OnJoinLobbyReq"]
        room == generate_room_code(rng.code)
        g0 == sig[i]
        g1 == IF creates > 0
              THEN [g0 EXCEPT !.room_code = room, !.is_host = TRUE,
                              !.answered_clients = {}]
              ELSE g0
        g2 == IF Len(joins) > 0
              THEN [g1 EXCEPT !.room_code = Last(joins), !.is_host = FALSE,
                       !.client_id = Some(u64_to_string(
                                        gen_client_id_num(rng.cid + Len(joins) - 1))),
                       !.client_answer_applied = FALSE,
                       !.client_join_pending = TRUE]
              ELSE g1
        m1 == Read(m, {"OnCreateLobbyReq", "OnJoinLobbyReq"})
        m2 == EmitOnRequest(m1, creates, joins, room)
    IN  /\ creates + Len(joins) > 0
        /\ creates > 0 => rng.code <= Len(RoomNames)
        /\ sig' = [sig EXCEPT ![i] = g2]
        /\ msgs' = [msgs EXCEPT ![i] = m2]
        /\ tasks' = IF creates > 0
                    THEN tasks (+) SetToBag({Task(i, "ensure_created", room)}) ELSE tasks
        /\ rng' = [code |-> rng.code + (IF creates > 0 THEN 1 ELSE 0),
                   cid |-> rng.cid + Len(joins)]
        /\ log' = [log EXCEPT !.joins[i] = @ + (IF Len(joins) > 0 THEN 1 ELSE 0)]
        /\ UNCHANGED <<sesV, shared, inbox, id_alloc, net_conns, rtcV, docs, app, budget>>
        /\ Run(i, "handle_create_join_requests")

\* A choice that takes some connection when there are several
only_connection_ids_any(q) == IF q = {} THEN None ELSE Some(CHOOSE c \in q : TRUE)

\* only_connection_ids: the id of the single NetConnection, when there is just one
only_connection_ids(q) == IF Cardinality(q) = 1 THEN Some(CHOOSE c \in q : TRUE) ELSE None

\* the entries of a map as a sequence, in ascending key order
RECURSIVE KeysAsc(_)
KeysAsc(S) ==
    IF S = {} THEN <<>>
    ELSE LET k == CHOOSE x \in S : \A y \in S : x <= y
         IN  <<k>> \o KeysAsc(S \ {k})

FlatMap(s, F(_)) == FoldLeft(LAMBDA acc, x : acc \o F(x), <<>>, s)

SendData(id, text) == [id |-> id, text |-> text]

handle_send_requests(i) ==
    LET m == msgs[i]
        g == sig[i]
        q_conns == KeysAsc(net_conns[i])
        hmap == g.host_connection_to_client_id
        to_all == FlatMap(m["OnTransportSendToAll"],
                      LAMBDA text : MapSeq(q_conns, LAMBDA c : SendData(c, text)))
        single == only_connection_ids(net_conns[i])
        to_host == IF IsSome(single)
                   THEN MapSeq(m["OnTransportSendToHost"],
                               LAMBDA text : SendData(Unwrap(single), text))
                   ELSE <<>>
        to_client == FlatMap(m["OnTransportSendToClient"],
                      LAMBDA x :
                        LET hit == {c \in DOMAIN hmap : hmap[c] = u64_to_string(x.cid)}
                        IN  IF g.is_host /\ hit # {}
                            THEN <<SendData(CHOOSE c \in hit : TRUE, x.text)>>
                            ELSE <<>>)
        relay == FlatMap(m["OnTransportRelayToAllExcept"],
                      LAMBDA x :
                        IF g.is_host
                        THEN MapSeq(KeysAsc({c \in DOMAIN hmap :
                                               hmap[c] # u64_to_string(x.sender)}),
                                    LAMBDA c : SendData(c, x.text))
                        ELSE <<>>)
        taken == {"OnTransportSendToAll", "OnTransportSendToHost",
                  "OnTransportSendToClient", "OnTransportRelayToAllExcept"}
    IN  /\ \E c \in taken : Len(m[c]) > 0
        /\ msgs' = [msgs EXCEPT ![i] =
               Write(Read(m, taken), {"SendData"}, to_all \o to_host \o to_client \o relay)]
        /\ UNCHANGED <<sesV, trV, rtcV, envV, app, budget, log>>
        /\ Run(i, "handle_send_requests")

\* A reset that leaves the role as it was
clear_signaling_keep_role(g) == [DefaultSig EXCEPT !.is_host = g.is_host]

\* the fields of SignalingState after the exit handlers have cleared them
clear_signaling(g) == DefaultSig

handle_exit_requests(i) ==
    LET m == msgs[i]
    IN  /\ Len(m["OnExitLobbyReq@handle_exit_requests"]) > 0
        /\ msgs' = [msgs EXCEPT ![i] =
               Write(Read(m, {"OnExitLobbyReq@handle_exit_requests"}),
                     {"CloseAllConnections"}, <<"CloseAllConnections">>)]
        /\ net_conns' = [net_conns EXCEPT ![i] = {}]
        /\ sig' = [sig EXCEPT ![i] = clear_signaling(@)]
        /\ inbox' = [inbox EXCEPT ![i] = <<>>]
        /\ log' = [log EXCEPT !.late[i] = <<>>]
        /\ UNCHANGED <<sesV, shared, id_alloc, rtcV, envV, app, budget>>
        /\ Run(i, "handle_exit_requests")

on_lobby_exit_cleanup(i) ==
    LET m == msgs[i]
    IN  /\ Len(m["OnLobbyExit@on_lobby_exit_cleanup"]) > 0
        /\ msgs' = [msgs EXCEPT ![i] =
               Write(Read(m, {"OnLobbyExit@on_lobby_exit_cleanup"}),
                     {"CloseAllConnections"}, <<"CloseAllConnections">>)]
        /\ net_conns' = [net_conns EXCEPT ![i] = {}]
        /\ sig' = [sig EXCEPT ![i] = clear_signaling(@)]
        /\ shared' = [shared EXCEPT ![i] = DefaultShared]
        /\ inbox' = [inbox EXCEPT ![i] = <<>>]
        /\ log' = [log EXCEPT !.late[i] = <<>>]
        /\ UNCHANGED <<sesV, id_alloc, rtcV, envV, app, budget>>
        /\ Run(i, "on_lobby_exit_cleanup")

\* the connection that host_connection_to_client_id maps to the client id
ConnOfClient(hmap, target) ==
    LET hit == {c \in DOMAIN hmap : hmap[c] = target}
    IN  IF hit = {} THEN None ELSE Some(CHOOSE c \in hit : \A d \in hit : c <= d)

\* A handler that reports the roster for every kick request
KickOneLoud(acc, client_id) ==
    LET g == acc.sig
        target == u64_to_string(client_id)
        to_remove == ConnOfClient(g.host_connection_to_client_id, target)
        conn == Unwrap(to_remove)
        g1 == [g EXCEPT !.host_connection_to_client_id = MapDel(@, conn),
                        !.answered_clients = @ \ {target},
                        !.joined_clients = @ \ {target}]
    IN  IF ~g.is_host \/ ~IsSome(to_remove)
        THEN [acc EXCEPT !.roster = Append(@, g.joined_clients)]
        ELSE [sig |-> g1,
              conns |-> acc.conns \ {conn},
              close |-> Append(acc.close, conn),
              roster |-> Append(acc.roster, g1.joined_clients)]

\* One OnKickReq(client_id) in handle_kick_requests
KickOne(acc, client_id) ==
    LET g == acc.sig
        target == u64_to_string(client_id)
        to_remove == ConnOfClient(g.host_connection_to_client_id, target)
        conn == Unwrap(to_remove)
        g1 == [g EXCEPT !.host_connection_to_client_id = MapDel(@, conn),
                        !.answered_clients = @ \ {target},
                        !.joined_clients = @ \ {target}]
    IN  IF ~g.is_host \/ ~IsSome(to_remove) THEN acc
        ELSE [sig |-> g1,
              conns |-> acc.conns \ {conn},
              close |-> Append(acc.close, conn),
              roster |-> Append(acc.roster, g1.joined_clients)]

handle_kick_requests(i) ==
    LET m == msgs[i]
        kicks == m["OnKickReq"]
        res == FoldLeft(KickOne, [sig |-> sig[i], conns |-> net_conns[i],
                                  close |-> <<>>, roster |-> <<>>], kicks)
        m1 == Read(m, {"OnKickReq"})
        m2 == Write(m1, {"CloseConnection"}, res.close)
        m3 == Write(m2, {"OnTransportRosterChanged"}, res.roster)
    IN  /\ Len(kicks) > 0
        /\ sig' = [sig EXCEPT ![i] = res.sig]
        /\ net_conns' = [net_conns EXCEPT ![i] = res.conns]
        /\ msgs' = [msgs EXCEPT ![i] = m3]
        /\ log' = [log EXCEPT !.kicked[i] = @ \cup
                       {sig[i].host_connection_to_client_id[c] : c \in SeqToSet(res.close)}]
        /\ UNCHANGED <<sesV, shared, inbox, id_alloc, rtcV, envV, app, budget>>
        /\ Run(i, "handle_kick_requests")

\* One LocalSdpReady { id, sdp } in log_local_sdp_ready
SdpReadyOne(acc, x) ==
    LET g == acc.sig
        g1 == IF ~g.is_host /\ ~IsSome(g.offer_conn)
              THEN [g EXCEPT !.offer_conn = Some(x.id)] ELSE g
        offer == IF g1.room_code # "" /\ ~g1.is_host /\ IsSome(g1.client_id)
                 THEN <<[kind |-> "write_offer", room |-> g1.room_code,
                         client_id |-> Unwrap(g1.client_id), sdp |-> x.sdp,
                         ensured |-> FALSE]>>
                 ELSE <<>>
        answer == IF g1.is_host /\ x.id \in DOMAIN g1.host_connection_to_client_id
                  THEN <<[kind |-> "write_answer", room |-> g1.room_code,
                          client_id |-> g1.host_connection_to_client_id[x.id],
                          sdp |-> x.sdp, ensured |-> FALSE]>>
                  ELSE <<>>
    IN  [sig |-> g1, conns |-> acc.conns \cup {x.id},
         spawned |-> acc.spawned \o offer \o answer]

log_local_sdp_ready(i) ==
    LET m == msgs[i]
        r == m["LocalSdpReady"]
        res == FoldLeft(SdpReadyOne, [sig |-> sig[i], conns |-> net_conns[i],
                                      spawned |-> <<>>], r)
    IN  /\ Len(r) > 0
        /\ sig' = [sig EXCEPT ![i] = res.sig]
        /\ net_conns' = [net_conns EXCEPT ![i] = res.conns]
        /\ msgs' = [msgs EXCEPT ![i] = Read(m, {"LocalSdpReady"})]
        /\ tasks' = Spawn(tasks, MapSeq(res.spawned, LAMBDA a : Task(i, "signal", a)))
        /\ UNCHANGED <<sesV, shared, inbox, id_alloc, rtcV, docs, rng, app, budget, log>>
        /\ Run(i, "log_local_sdp_ready")

\* A client that takes the open data channel without announcing the lobby
ConnOpenQuiet(acc, id) ==
    IF acc.sig.is_host
    THEN acc
    ELSE [acc EXCEPT !.sig = [acc.sig EXCEPT !.client_emitted_join = TRUE]]

\* One ConnectionOpen(id) in log_connection_open
ConnOpenOne(acc, id) ==
    LET g == acc.sig
        hmap == g.host_connection_to_client_id
    IN  IF g.is_host
        THEN IF id \in DOMAIN hmap
             THEN LET g1 == [g EXCEPT !.joined_clients = @ \cup {hmap[id]}]
                  IN  [acc EXCEPT !.sig = g1,
                                  !.roster = Append(@, g1.joined_clients)]
             ELSE acc
        ELSE IF ~g.client_emitted_join
             THEN [acc EXCEPT !.sig = [g EXCEPT !.client_emitted_join = TRUE],
                              !.joined = Append(@, g.room_code)]
             ELSE acc

log_connection_open(i) ==
    LET m == msgs[i]
        r == m["ConnectionOpen"]
        res == FoldLeft(ConnOpenOne, [sig |-> sig[i], roster |-> <<>>, joined |-> <<>>], r)
        m1 == Read(m, {"ConnectionOpen"})
        m2 == Write(m1, {"OnTransportRosterChanged"}, res.roster)
        m3 == Write(m2, {"OnLobbyJoined"}, res.joined)
        m4 == Write(m3, OnLobbyEntered, res.joined)
    IN  /\ Len(r) > 0
        /\ sig' = [sig EXCEPT ![i] = res.sig]
        /\ msgs' = [msgs EXCEPT ![i] = m4]
        /\ UNCHANGED <<sesV, shared, inbox, id_alloc, net_conns, rtcV, envV, app,
                       budget, log>>
        /\ Run(i, "log_connection_open")

\* One ConnectionClosed(id) in handle_connection_closed
\* A handler for which a closed connection is a local matter of the transport
ConnClosedOneLocal(acc, id) ==
    LET g == acc.sig
        hmap == g.host_connection_to_client_id
        a1 == [acc EXCEPT !.conns = @ \ {id}]
    IN  IF g.is_host /\ id \in DOMAIN hmap
        THEN LET g1 == [g EXCEPT !.host_connection_to_client_id = MapDel(@, id),
                                 !.answered_clients = @ \ {hmap[id]},
                                 !.joined_clients = @ \ {hmap[id]}]
             IN  [a1 EXCEPT !.sig = g1, !.roster = Append(@, g1.joined_clients)]
        ELSE a1

\* A handler that forgets the connection but keeps the client id as answered
ConnClosedOneKeepAnswered(acc, id) ==
    LET g == acc.sig
        hmap == g.host_connection_to_client_id
        a1 == [acc EXCEPT !.conns = @ \ {id}]
    IN  IF g.is_host
        THEN IF id \in DOMAIN hmap
             THEN LET g1 == [g EXCEPT !.host_connection_to_client_id = MapDel(@, id),
                                      !.joined_clients = @ \ {hmap[id]}]
                  IN  [a1 EXCEPT !.sig = g1, !.roster = Append(@, g1.joined_clients)]
             ELSE a1
        ELSE [a1 EXCEPT !.exit = Append(@, Disconnected)]

ConnClosedOne(acc, id) ==
    LET g == acc.sig
        hmap == g.host_connection_to_client_id
        a1 == [acc EXCEPT !.conns = @ \ {id}]
    IN  IF g.is_host
        THEN IF id \in DOMAIN hmap
             THEN LET g1 == [g EXCEPT !.host_connection_to_client_id = MapDel(@, id),
                                      !.answered_clients = @ \ {hmap[id]},
                                      !.joined_clients = @ \ {hmap[id]}]
                  IN  [a1 EXCEPT !.sig = g1, !.roster = Append(@, g1.joined_clients)]
             ELSE a1
        ELSE [a1 EXCEPT !.exit = Append(@, Disconnected)]

handle_connection_closed(i) ==
    LET m == msgs[i]
        r == m["ConnectionClosed"]
        res == FoldLeft(ConnClosedOne, [sig |-> sig[i], conns |-> net_conns[i],
                                        roster |-> <<>>, exit |-> <<>>], r)
        m1 == Read(m, {"ConnectionClosed"})
        m2 == Write(m1, {"OnTransportRosterChanged"}, res.roster)
        m3 == Write(m2, OnLobbyExit, res.exit)
    IN  /\ Len(r) > 0
        /\ sig' = [sig EXCEPT ![i] = res.sig]
        /\ net_conns' = [net_conns EXCEPT ![i] = res.conns]
        /\ msgs' = [msgs EXCEPT ![i] = m3]
        /\ UNCHANGED <<sesV, shared, inbox, id_alloc, rtcV, envV, app, budget, log>>
        /\ Run(i, "handle_connection_closed")

log_incoming_data(i) ==
    LET m == msgs[i]
        r == m["IncomingData"]
        g == sig[i]
        hmap == g.host_connection_to_client_id
        from_client ==
            IF g.is_host
            THEN FlatMap(r, LAMBDA x :
                     IF x.id \in DOMAIN hmap /\ IsSome(str_parse_u64(hmap[x.id]))
                     THEN <<[cid |-> Unwrap(str_parse_u64(hmap[x.id])), text |-> x.text]>>
                     ELSE <<>>)
            ELSE <<>>
        from_host == IF g.is_host THEN <<>> ELSE MapSeq(r, LAMBDA x : x.text)
        m1 == Read(m, {"IncomingData"})
        m2 == Write(m1, {"OnTransportIncomingFromClient"}, from_client)
        m3 == Write(m2, {"OnTransportIncomingFromHost"}, from_host)
    IN  /\ Len(r) > 0
        /\ msgs' = [msgs EXCEPT ![i] = m3]
        /\ UNCHANGED <<sesV, trV, rtcV, envV, app, budget, log>>
        /\ Run(i, "log_incoming_data")

\* ConnectionIdAllocator::allocate
allocate(n) == n + 1

\* One offers entry (cid, sdp) of the document in apply_firestore_doc, host side
ApplyOffer(doc, acc, n) ==
    LET cid == u64_to_string(n)
        g == acc.sig
        id == allocate(acc.id_alloc)
    IN  IF cid \in g.answered_clients THEN acc
        ELSE [acc EXCEPT
                 !.id_alloc = id,
                 !.answer = Append(@, [id |-> id, remote_sdp |-> doc.fields.offers[cid]]),
                 !.sig = [g EXCEPT !.answered_clients = @ \cup {cid},
                                   !.host_connection_to_client_id = MapPut(@, id, cid)]]

\* A client that applies the answer of every document that holds one
ApplyDocAgain(doc, acc) ==
    LET g == acc.sig
        answers == doc.fields.answers
        cid == Unwrap(g.client_id)
    IN  IF "fields" \notin DOMAIN doc THEN acc
        ELSE IF g.is_host
        THEN FoldLeft(LAMBDA a, n : ApplyOffer(doc, a, n), acc,
                      KeysAsc({c[1] : c \in DOMAIN doc.fields.offers}))
        ELSE IF IsSome(g.client_id) /\ cid \in DOMAIN answers
        THEN LET fresh == ~IsSome(g.offer_conn)
                 target == IF fresh THEN allocate(acc.id_alloc) ELSE Unwrap(g.offer_conn)
             IN  [acc EXCEPT
                     !.id_alloc = IF fresh THEN target ELSE @,
                     !.set = Append(@, [id |-> target, sdp |-> answers[cid]]),
                     !.sig = [g EXCEPT !.client_answer_applied = TRUE]]
        ELSE acc

\* acc is [sig, id_alloc, answer, set, offer]
apply_firestore_doc(doc, acc) ==
    LET g == acc.sig
        offers == doc.fields.offers
        answers == doc.fields.answers
        cid == Unwrap(g.client_id)
    IN  IF "fields" \notin DOMAIN doc THEN acc
        ELSE IF g.is_host
        THEN FoldLeft(LAMBDA a, n : ApplyOffer(doc, a, n), acc,
                      KeysAsc({c[1] : c \in DOMAIN offers}))
        ELSE IF IsSome(g.client_id) /\ ~g.client_answer_applied /\ cid \in DOMAIN answers
        THEN LET fresh == ~IsSome(g.offer_conn)
                 target == IF fresh THEN allocate(acc.id_alloc) ELSE Unwrap(g.offer_conn)
             IN  [acc EXCEPT
                     !.id_alloc = IF fresh THEN target ELSE @,
                     !.set = Append(@, [id |-> target, sdp |-> answers[cid]]),
                     !.sig = [g EXCEPT !.client_answer_applied = TRUE]]
        ELSE acc

\* A pump that takes a missing document for an empty room: the variant the
\* not-found scenario rules out.
PumpDocAnyFetch(acc, doc) ==
    IF "__status" \in DOMAIN doc
    THEN [acc EXCEPT !.shared.room_exists = TRUE]
    ELSE IF acc.sig.client_join_pending /\ ~acc.sig.is_host
    THEN [acc EXCEPT !.sig = [acc.sig EXCEPT !.client_join_pending = FALSE,
                                             !.client_emitted_join = FALSE,
                                             !.offer_conn = Some(allocate(acc.id_alloc))],
                     !.id_alloc = allocate(acc.id_alloc),
                     !.offer = Append(@, [id |-> allocate(acc.id_alloc)])]
    ELSE acc

\* the document holds an answer under the client id of g
HoldsAnswer(doc, g) ==
    /\ "fields" \in DOMAIN doc
    /\ ~g.is_host /\ IsSome(g.client_id)
    /\ Unwrap(g.client_id) \in DOMAIN doc.fields.answers

\* One drained inbox value in firestore_pump
PumpDoc(acc, doc) ==
    IF "__status" \in DOMAIN doc /\ doc.__status = "created"
    THEN [acc EXCEPT !.shared.room_exists = TRUE]
    ELSE IF "__status" \in DOMAIN doc /\ doc.__status = "not_found"
    THEN [acc EXCEPT
             !.shared.next_allowed_fetch_at_ms =
                 IF @ < NotFoundBackoffMs THEN NotFoundBackoffMs ELSE @,
             !.shared.not_found_logged = TRUE]
    ELSE IF doc # Null
    THEN LET a1 == apply_firestore_doc(doc, acc)
             id == allocate(a1.id_alloc)
         IN  IF a1.sig.client_join_pending /\ ~a1.sig.is_host
             THEN [a1 EXCEPT !.sig = [a1.sig EXCEPT !.client_join_pending = FALSE,
                                                    !.client_emitted_join = FALSE,
                                                    !.offer_conn = Some(id)],
                             !.id_alloc = id,
                             !.offer = Append(@, [id |-> id])]
             ELSE a1
    ELSE acc

\* a pump that takes only a document for the result of its fetch
ReleaseOnDoc(sh, drained_docs) ==
    IF \E k \in 1..Len(drained_docs) : drained_docs[k] # Null
    THEN [sh EXCEPT !.in_flight = FALSE]
    ELSE sh

\* if !drained_docs.is_empty() { shared.in_flight = false; }
Release(sh, drained_docs) ==
    IF Len(drained_docs) > 0 THEN [sh EXCEPT !.in_flight = FALSE] ELSE sh

firestore_pump(i) ==
    LET drained_docs == inbox[i]
        sh0 == Release(shared[i], drained_docs)
        res == FoldLeft(PumpDoc, [sig |-> sig[i], shared |-> sh0, id_alloc |-> id_alloc[i],
                                  answer |-> <<>>, set |-> <<>>, offer |-> <<>>],
                        drained_docs)
        fetch == /\ ~res.shared.in_flight
                 /\ res.shared.next_allowed_fetch_at_ms = 0
                 /\ ~(res.sig.is_host /\ ~res.shared.room_exists)
        m1 == Write(msgs[i], {"CreateAnswer"}, res.answer)
        m2 == Write(m1, {"SetRemote"}, res.set)
        m3 == Write(m2, {"CreateOffer"}, res.offer)
    IN  /\ sig[i].room_code # ""
        /\ Len(drained_docs) > 0 \/ fetch
        /\ inbox' = [inbox EXCEPT ![i] = <<>>]
        /\ sig' = [sig EXCEPT ![i] = res.sig]
        /\ id_alloc' = [id_alloc EXCEPT ![i] = res.id_alloc]
        /\ msgs' = [msgs EXCEPT ![i] = m3]
        /\ shared' = [shared EXCEPT ![i] =
               IF fetch THEN [res.shared EXCEPT !.in_flight = TRUE,
                                                !.next_allowed_fetch_at_ms = PollIntervalMs]
               ELSE res.shared]
        /\ tasks' = IF fetch
                    THEN tasks (+) SetToBag({Task(i, "read_room", res.sig.room_code)})
                    ELSE tasks
        /\ log' = [log EXCEPT
               !.offers[i] = @ + Len(res.offer),
               !.applied[i] = @ + Len(res.set),
               !.redundant[i] = @ \/ (/\ sig[i].client_answer_applied
                                      /\ \E k \in 1..Len(drained_docs) :
                                             HoldsAnswer(drained_docs[k], sig[i])),
               !.doc_seen[i] = @ \/ \E k \in 1..Len(drained_docs) :
                                          "fields" \in DOMAIN drained_docs[k],
               !.null_seen[i] = @ \/ \E k \in 1..Len(drained_docs) :
                                           drained_docs[k] = Null,
               !.answered = FoldLeft(
                   LAMBDA b, x : b (+) SetToBag({res.sig.host_connection_to_client_id[x.id]}),
                   @, res.answer),
               !.late[i] = <<>>]
        /\ UNCHANGED <<sesV, net_conns, rtcV, docs, rng, app, budget>>
        /\ Run(i, "firestore_pump")

\* js_sys::Date::now() advances by one poll interval, for every instance
Elapse(t) == IF t > PollIntervalMs THEN t - PollIntervalMs ELSE 0

time_passes ==
    /\ \E i \in Inst : shared[i].next_allowed_fetch_at_ms > 0
    /\ shared' = [i \in Inst |->
           [shared[i] EXCEPT !.next_allowed_fetch_at_ms = Elapse(@)]]
    /\ UNCHANGED <<sesV, msgs, sig, inbox, id_alloc, net_conns, rtcV, envV, app,
                   budget, log>>
    /\ Idle

----------------------------------------------------------------------------
\* bevy_webrtc: the connection manager.  An endpoint <<i, id>> is the
\* RTCPeerConnection instance i created for connection id; browser holds what
\* the browser knows of it: the endpoint it negotiated with and the ready
\* state of its data channel.

\* ConnState::new()
NewConnState ==
    [pending_open |-> FALSE, pending_closed |-> FALSE,
     pending_messages |-> <<>>, pending_local_sdp |-> <<>>]

\* session descriptions: an offer names its endpoint, an answer the offer it answers
OfferSdp(ep) == [type |-> "offer", ep |-> ep]
AnswerSdp(ep, to) == [type |-> "answer", ep |-> ep, to |-> to]

NewEndpoint(remote) == [remote |-> remote, ready_state |-> "connecting"]

entry_or_insert(conns, id) == IF id \in DOMAIN conns THEN conns ELSE MapPut(conns, id, NewConnState)

handle_create_offer(i) ==
    LET m == msgs[i]
        ev == m["CreateOffer"]
        ids == MapSeq(ev, LAMBDA x : x.id)
    IN  /\ Len(ev) > 0
        /\ ctx' = [ctx EXCEPT ![i] = FoldLeft(entry_or_insert, @, ids)]
        /\ browser' = FoldLeft(LAMBDA b, id : MapPut(b, <<i, id>>, NewEndpoint(None)),
                               browser, ids)
        /\ tasks' = Spawn(tasks, MapSeq(ids, LAMBDA id : Task(i, "create_offer", id)))
        /\ msgs' = [msgs EXCEPT ![i] = Read(m, {"CreateOffer"})]
        /\ UNCHANGED <<sesV, trV, docs, rng, app, budget, log>>
        /\ Run(i, "handle_create_offer")

handle_create_answer(i) ==
    LET m == msgs[i]
        ev == m["CreateAnswer"]
        ids == MapSeq(ev, LAMBDA x : x.id)
    IN  /\ Len(ev) > 0
        /\ ctx' = [ctx EXCEPT ![i] = FoldLeft(entry_or_insert, @, ids)]
        /\ browser' = FoldLeft(LAMBDA b, x : MapPut(b, <<i, x.id>>, NewEndpoint(None)),
                               browser, ev)
        /\ tasks' = Spawn(tasks, MapSeq(ev, LAMBDA x : Task(i, "create_answer", x)))
        /\ msgs' = [msgs EXCEPT ![i] = Read(m, {"CreateAnswer"})]
        /\ UNCHANGED <<sesV, trV, docs, rng, app, budget, log>>
        /\ Run(i, "handle_create_answer")

handle_set_remote(i) ==
    LET m == msgs[i]
        ev == m["SetRemote"]
        known == SelectSeq(ev, LAMBDA x : x.id \in DOMAIN ctx[i])
    IN  /\ Len(ev) > 0
        /\ tasks' = Spawn(tasks, MapSeq(known, LAMBDA x : Task(i, "set_remote", x)))
        /\ msgs' = [msgs EXCEPT ![i] = Read(m, {"SetRemote"})]
        /\ UNCHANGED <<sesV, trV, rtcV, docs, rng, app, budget, log>>
        /\ Run(i, "handle_set_remote")

\* RTCDataChannel::send_with_str: the text reaches the onmessage callback of
\* the remote endpoint, if that endpoint's channel is open
\* a channel that hands its message to a record made anew for the connection
dc_send_late(c, ep, text) ==
    LET remote == Unwrap(browser[ep].remote)
        j == remote[1]
        rid == remote[2]
    IN  [c EXCEPT ![j] = [entry_or_insert(c[j], rid) EXCEPT
                              ![rid].pending_messages = Append(@, text)]]

dc_send(c, ep, text) ==
    LET remote == Unwrap(browser[ep].remote)
        j == remote[1]
        rid == remote[2]
    IN  IF browser[remote].ready_state = "open" /\ rid \in DOMAIN c[j]
        THEN [c EXCEPT ![j][rid].pending_messages = Append(@, text)]
        ELSE c

\* A sender that keeps what it could not send for the next frame
handle_send_data_retry(i) ==
    LET m == msgs[i]
        ev == m["SendData"]
        sendable(x) == /\ x.id \in DOMAIN ctx[i]
                       /\ browser[<<i, x.id>>].ready_state = "open"
        sent == SelectSeq(ev, sendable)
        kept == SelectSeq(ev, LAMBDA x : ~sendable(x))
    IN  /\ Len(ev) > 0
        /\ ctx' = FoldLeft(LAMBDA c, x : dc_send(c, <<i, x.id>>, x.text), ctx, sent)
        /\ msgs' = [msgs EXCEPT ![i] = Write(Read(m, {"SendData"}), {"SendData"}, kept)]
        /\ UNCHANGED <<sesV, trV, browser, envV, app, budget, log>>
        /\ Run(i, "handle_send_data")

handle_send_data(i) ==
    LET m == msgs[i]
        ev == m["SendData"]
        sendable(x) == /\ x.id \in DOMAIN ctx[i]
                       /\ browser[<<i, x.id>>].ready_state = "open"
        sent == SelectSeq(ev, sendable)
    IN  /\ Len(ev) > 0
        /\ ctx' = FoldLeft(LAMBDA c, x : dc_send(c, <<i, x.id>>, x.text), ctx, sent)
        /\ msgs' = [msgs EXCEPT ![i] = Read(m, {"SendData"})]
        /\ UNCHANGED <<sesV, trV, browser, envV, app, budget, log>>
        /\ Run(i, "handle_send_data")

\* the orders in which a HashMap may yield its keys
Orders(S) ==
    {s \in [1..Cardinality(S) -> S] : \A a, b \in 1..Cardinality(S) : s[a] = s[b] => a = b}

\* the writes of one connection in program order: open, closed, data, sdp
Surfaced(st, id) ==
    (IF st.pending_open THEN <<<<"open", id>>>> ELSE <<>>)
        \o (IF st.pending_closed THEN <<<<"closed", id>>>> ELSE <<>>)
        \o (IF st.pending_messages # <<>> THEN <<<<"data", id>>>> ELSE <<>>)

\* A pump that drains the messages of a connection before it looks at the open flag
PumpConnDataFirst(i, acc, id) ==
    LET st == ctx[i][id]
    IN  [open |-> acc.open \o (IF st.pending_open THEN <<id>> ELSE <<>>),
         closed |-> acc.closed \o (IF st.pending_closed THEN <<id>> ELSE <<>>),
         data |-> acc.data \o MapSeq(st.pending_messages,
                                     LAMBDA t : [id |-> id, text |-> t]),
         sdp |-> acc.sdp \o MapSeq(st.pending_local_sdp,
                                   LAMBDA t : [id |-> id, sdp |-> t]),
         events |-> acc.events
                        \o (IF st.pending_messages # <<>> THEN <<<<"data", id>>>> ELSE <<>>)
                        \o (IF st.pending_open THEN <<<<"open", id>>>> ELSE <<>>)
                        \o (IF st.pending_closed THEN <<<<"closed", id>>>> ELSE <<>>)]

\* One connection in pump_js_callbacks
PumpConn(i, acc, id) ==
    LET st == ctx[i][id]
    IN  [open |-> acc.open \o (IF st.pending_open THEN <<id>> ELSE <<>>),
         closed |-> acc.closed \o (IF st.pending_closed THEN <<id>> ELSE <<>>),
         data |-> acc.data \o MapSeq(st.pending_messages,
                                     LAMBDA t : [id |-> id, text |-> t]),
         sdp |-> acc.sdp \o MapSeq(st.pending_local_sdp,
                                   LAMBDA t : [id |-> id, sdp |-> t]),
         events |-> acc.events \o Surfaced(st, id)]

\* history of the writes of pump_js_callbacks: every ConnectionOpen and
\* ConnectionClosed, and the first IncomingData of each connection
Note(seen, e) ==
    IF e[1] = "data" /\ \E k \in 1..Len(seen) : seen[k] = e THEN seen ELSE Append(seen, e)

pump_js_callbacks(i) ==
    \E ids \in Orders(DOMAIN ctx[i]) :
        LET res == FoldLeft(LAMBDA acc, id : PumpConn(i, acc, id),
                            [open |-> <<>>, closed |-> <<>>, data |-> <<>>, sdp |-> <<>>,
                             events |-> <<>>],
                            ids)
            m1 == Write(msgs[i], {"ConnectionOpen"}, res.open)
            m2 == Write(m1, {"ConnectionClosed"}, res.closed)
            m3 == Write(m2, {"IncomingData"}, res.data)
            m4 == Write(m3, {"LocalSdpReady"}, res.sdp)
        IN  /\ Len(res.open) + Len(res.closed) + Len(res.data) + Len(res.sdp) > 0
            /\ ctx' = [ctx EXCEPT ![i] = [id \in DOMAIN ctx[i] |-> NewConnState]]
            /\ msgs' = [msgs EXCEPT ![i] = m4]
            /\ log' = [log EXCEPT !.surfaced[i] = FoldLeft(Note, @, res.events)]
            /\ UNCHANGED <<sesV, trV, browser, envV, app, budget>>
            /\ Run(i, "pump_js_callbacks")

\* RTCDataChannel::close and RTCPeerConnection::close of the removed entries
close_endpoints(b, i, ids) ==
    [ep \in DOMAIN b |->
        IF ep[1] = i /\ ep[2] \in ids THEN [b[ep] EXCEPT !.ready_state = "closed"] ELSE b[ep]]

handle_close_connection(i) ==
    LET m == msgs[i]
        ev == m["CloseConnection"]
        ids == SeqToSet(ev) \cap DOMAIN ctx[i]
    IN  /\ Len(ev) > 0
        /\ ctx' = [ctx EXCEPT ![i] = [id \in DOMAIN ctx[i] \ ids |-> ctx[i][id]]]
        /\ browser' = close_endpoints(browser, i, ids)
        /\ msgs' = [msgs EXCEPT ![i] = Read(m, {"CloseConnection"})]
        /\ log' = [log EXCEPT !.closed[i] = @ \cup ids]
        /\ UNCHANGED <<sesV, trV, envV, app, budget>>
        /\ Run(i, "handle_close_connection")

handle_close_all(i) ==
    LET m == msgs[i]
        ev == m["CloseAllConnections"]
    IN  /\ Len(ev) > 0
        /\ ctx' = [ctx EXCEPT ![i] = EmptyMap]
        /\ browser' = close_endpoints(browser, i, DOMAIN ctx[i])
        /\ msgs' = [msgs EXCEPT ![i] = Read(m, {"CloseAllConnections"})]
        /\ log' = [log EXCEPT !.closed[i] = @ \cup DOMAIN ctx[i]]
        /\ UNCHANGED <<sesV, trV, envV, app, budget>>
        /\ Run(i, "handle_close_all")

----------------------------------------------------------------------------
\* The environment: completion of the futures, the document store, the browser

Done(t) == tasks (-) SetToBag({t})
Pending(kind) == {t \in BagToSet(tasks) : t.t = kind}

\* PATCH without update mask: the document is replaced
ensure_room_exists(d, room) == [d EXCEPT ![room] = EmptyRoom]
\* PATCH with updateMask.fieldPaths=offers / answers: that field is replaced
write_offer(d, room, client_id, sdp) ==
    [d EXCEPT ![room] = [offers |-> MapPut(EmptyMap, client_id, sdp),
                         answers |-> IF @ = Null THEN EmptyMap ELSE @.answers]]
write_answer(d, room, client_id, sdp) ==
    [d EXCEPT ![room] = [offers |-> IF @ = Null THEN EmptyMap ELSE @.offers,
                         answers |-> MapPut(EmptyMap, client_id, sdp)]]
\* GET: the document, or nothing when there is none
read_room(d, room) == IF d[room] = Null THEN Null ELSE RoomDoc(d[room])

\* the future was spawned for a room that its instance has left since
Late(t) == t.arg # sig[t.i].room_code

\* the future spawned by handle_create_join_requests
task_ensure_created ==
    \E t \in Pending("ensure_created") :
        /\ docs' = ensure_room_exists(docs, t.arg)
        /\ inbox' = [inbox EXCEPT ![t.i] = Append(@, StatusCreated)]
        /\ tasks' = Done(t)
        /\ log' = [log EXCEPT !.late[t.i] = Append(@, Late(t))]
        /\ UNCHANGED <<sesV, msgs, sig, shared, id_alloc, net_conns, rtcV, rng, app,
                       budget>>
        /\ Idle

\* the future spawned by firestore_pump
task_read_room(i) ==
    \E t \in Pending("read_room") :
        /\ t.i = i
        /\ inbox' = [inbox EXCEPT ![t.i] = Append(@, read_room(docs, t.arg))]
        /\ tasks' = Done(t)
        /\ log' = [log EXCEPT !.late[t.i] = Append(@, Late(t))]
        /\ UNCHANGED <<sesV, msgs, sig, shared, id_alloc, net_conns, rtcV, docs, rng,
                       app, budget>>
        /\ Idle

\* the same future when http_fetch_json returns None: the request fails, the
\* response is not ok or its body is not JSON
task_read_room_failed(i) ==
    \E t \in Pending("read_room") :
        /\ t.i = i
        /\ inbox' = [inbox EXCEPT ![t.i] = Append(@, Null)]
        /\ tasks' = Done(t)
        /\ log' = [log EXCEPT !.late[t.i] = Append(@, Late(t))]
        /\ UNCHANGED <<sesV, msgs, sig, shared, id_alloc, net_conns, rtcV, docs, rng,
                       app, budget>>
        /\ Idle

\* the futures spawned by log_local_sdp_ready: ensure_room_exists, then the write
task_signal ==
    \E t \in Pending("signal") :
        LET a == t.arg
        IN  /\ IF ~a.ensured
               THEN /\ docs' = ensure_room_exists(docs, a.room)
                    /\ tasks' = Done(t) (+) SetToBag({[t EXCEPT !.arg.ensured = TRUE]})
                    /\ log' = log
               ELSE /\ docs' = IF a.kind = "write_offer"
                               THEN write_offer(docs, a.room, a.client_id, a.sdp)
                               ELSE write_answer(docs, a.room, a.client_id, a.sdp)
                    /\ tasks' = Done(t)
                    /\ log' = [log EXCEPT
                           !.published[t.i] = IF a.kind = "write_offer" THEN @ + 1 ELSE @,
                           !.written = @ (+) SetToBag({<<a.kind, a.client_id>>})]
            /\ UNCHANGED <<sesV, msgs, trV, rtcV, rng, app, budget>>
            /\ Idle

PushSdp(c, i, id, sdp) ==
    IF id \in DOMAIN c[i] THEN [c EXCEPT ![i][id].pending_local_sdp = Append(@, sdp)] ELSE c

\* the future spawned by handle_create_offer
task_create_offer ==
    \E t \in Pending("create_offer") :
        LET ep == <<t.i, t.arg>>
        IN  /\ ctx' = IF browser[ep].ready_state \notin {"closed", "failed"}
                      THEN PushSdp(ctx, t.i, t.arg, OfferSdp(ep)) ELSE ctx
            /\ tasks' = Done(t)
            /\ UNCHANGED <<sesV, msgs, trV, browser, docs, rng, app, budget, log>>
            /\ Idle

\* the future spawned by handle_create_answer
task_create_answer ==
    \E t \in Pending("create_answer") :
        LET ep == <<t.i, t.arg.id>>
            offer == t.arg.remote_sdp
            ok == browser[ep].ready_state \notin {"closed", "failed"} /\ offer.type = "offer"
        IN  /\ browser' = IF ok THEN [browser EXCEPT ![ep].remote = Some(offer.ep)]
                          ELSE browser
            /\ ctx' = IF ok THEN PushSdp(ctx, t.i, t.arg.id, AnswerSdp(ep, offer.ep))
                      ELSE ctx
            /\ tasks' = Done(t)
            /\ UNCHANGED <<sesV, msgs, trV, docs, rng, app, budget, log>>
            /\ Idle

\* the future spawned by handle_set_remote
task_set_remote ==
    \E t \in Pending("set_remote") :
        LET ep == <<t.i, t.arg.id>>
            answer == t.arg.sdp
            ok == /\ browser[ep].ready_state = "connecting"
                  /\ browser[ep].remote = None
                  /\ answer.type = "answer" /\ answer.to = ep
        IN  /\ browser' = IF ok THEN [browser EXCEPT ![ep].remote = Some(answer.ep)]
                          ELSE browser
            /\ tasks' = Done(t)
            /\ UNCHANGED <<sesV, msgs, trV, ctx, docs, rng, app, budget, log>>
            /\ Idle

SetFlag(c, ep, flag) ==
    IF ep[2] \in DOMAIN c[ep[1]]
    THEN IF flag = "open" THEN [c EXCEPT ![ep[1]][ep[2]].pending_open = TRUE]
         ELSE [c EXCEPT ![ep[1]][ep[2]].pending_closed = TRUE]
    ELSE c

\* both descriptions are applied: the data channel opens, onopen fires on both ends
data_channel_open ==
    \E ep \in DOMAIN browser :
        LET r == Unwrap(browser[ep].remote)
        IN  /\ IsSome(browser[ep].remote)
            /\ r \in DOMAIN browser
            /\ browser[r].remote = Some(ep)
            /\ browser[ep].ready_state = "connecting"
            /\ browser[r].ready_state = "connecting"
            /\ browser' = [browser EXCEPT ![ep].ready_state = "open",
                                          ![r].ready_state = "open"]
            /\ ctx' = SetFlag(SetFlag(ctx, ep, "open"), r, "open")
            /\ UNCHANGED <<sesV, msgs, trV, envV, app, budget, log>>
            /\ Idle

\* the remote end was closed: onclose of the data channel fires here
remote_closed ==
    \E ep \in DOMAIN browser :
        LET r == Unwrap(browser[ep].remote)
        IN  /\ IsSome(browser[ep].remote)
            /\ r \in DOMAIN browser
            /\ browser[r].ready_state \in {"closed", "failed"}
            /\ browser[ep].ready_state \notin {"closed", "failed"}
            /\ browser' = [browser EXCEPT ![ep].ready_state = "closed"]
            /\ ctx' = SetFlag(ctx, ep, "closed")
            /\ UNCHANGED <<sesV, msgs, trV, envV, app, budget, log>>
            /\ Idle

\* the closures of hook_peer_connection: after the data channel has closed, the
\* peer connection of an entry that is still in the map reports that it is
\* disconnected or failed
connection_state_change ==
    \E ep \in DOMAIN browser :
        /\ browser[ep].ready_state = "closed"
        /\ ep[2] \in DOMAIN ctx[ep[1]]
        /\ browser' = [browser EXCEPT ![ep].ready_state = "failed"]
        /\ ctx' = SetFlag(ctx, ep, "closed")
        /\ UNCHANGED <<sesV, msgs, trV, envV, app, budget, log>>
        /\ Idle

\* the closures of hook_peer_connection: the peer connection of an open channel
\* reports that it is disconnected or failed (the network, or the peer, is gone)
connection_failed ==
    \E ep \in DOMAIN browser :
        /\ browser[ep].ready_state = "open"
        /\ ep[2] \in DOMAIN ctx[ep[1]]
        /\ browser' = [browser EXCEPT ![ep].ready_state = "failed"]
        /\ ctx' = SetFlag(ctx, ep, "closed")
        /\ UNCHANGED <<sesV, msgs, trV, envV, app, budget, log>>
        /\ Idle

\* the same closures while the channel is not open yet: with both descriptions
\* set, the connectivity checks of the peer connection fail
negotiation_failed(i) ==
    \E ep \in DOMAIN browser :
        /\ ep[1] = i
        /\ browser[ep].ready_state = "connecting"
        /\ IsSome(browser[ep].remote)
        /\ ep[2] \in DOMAIN ctx[ep[1]]
        /\ browser' = [browser EXCEPT ![ep].ready_state = "failed"]
        /\ ctx' = SetFlag(ctx, ep, "closed")
        /\ UNCHANGED <<sesV, msgs, trV, envV, app, budget, log>>
        /\ Idle

----------------------------------------------------------------------------
\* api.rs: the calls of the application on the EasyP2P system parameter.  The
\* application calls create and join from its start menu, and exit, kick and
\* chat from its lobby screen.

Texts == {"hi"}
PlayerDataValues == {DefaultPlayerData, 1}

Spend(what, i) == budget' = [budget EXCEPT ![what][i] = @ - 1]

create_lobby(i) ==
    /\ budget.create[i] > 0
    /\ lobby_state[i] = OutOfLobby
    /\ msgs' = [msgs EXCEPT ![i] = Write(@, {"OnCreateLobbyReq"}, <<"OnCreateLobbyReq">>)]
    /\ Spend("create", i)
    /\ log' = [log EXCEPT !.exited[i] = FALSE]
    /\ UNCHANGED <<sesV, trV, rtcV, envV, app>>
    /\ Idle

\* the codes handed out so far
KnownCodes == {generate_room_code(k) : k \in 1..(rng.code - 1)}

join_lobby(i, code) ==
    /\ budget.join[i] > 0
    /\ lobby_state[i] = OutOfLobby
    /\ msgs' = [msgs EXCEPT ![i] = Write(@, {"OnJoinLobbyReq"}, <<code>>)]
    /\ Spend("join", i)
    /\ log' = [log EXCEPT !.exited[i] = FALSE]
    /\ UNCHANGED <<sesV, trV, rtcV, envV, app>>
    /\ Idle

exit_lobby(i) ==
    /\ budget.exit[i] > 0
    /\ lobby_state[i] = InLobby
    /\ msgs' = [msgs EXCEPT ![i] = Write(@, OnExitLobbyReq, <<"OnExitLobbyReq">>)]
    /\ Spend("exit", i)
    /\ UNCHANGED <<sesV, trV, rtcV, envV, app, log>>
    /\ Idle

kick(i, client_id) ==
    /\ budget.kick[i] > 0
    /\ lobby_state[i] = InLobby
    /\ msgs' = [msgs EXCEPT ![i] = Write(@, {"OnKickReq"}, <<client_id>>)]
    /\ Spend("kick", i)
    /\ UNCHANGED <<sesV, trV, rtcV, envV, app, log>>
    /\ Idle

send_message_to_host(i, text) ==
    /\ budget.chat[i] > 0
    /\ lobby_state[i] = InLobby
    /\ ~state[i].is_host
    /\ msgs' = [msgs EXCEPT ![i] =
           Write(@, {"OnSendToHostReq"}, <<ClientLobbyChatMessage(text, ClientId(0))>>)]
    /\ Spend("chat", i)
    /\ log' = [log EXCEPT !.chat_sent[i] = @ + 1]
    /\ UNCHANGED <<sesV, trV, rtcV, envV, app>>
    /\ Idle

send_message_all(i, text) ==
    /\ budget.chat[i] > 0
    /\ lobby_state[i] = InLobby
    /\ state[i].is_host
    /\ msgs' = [msgs EXCEPT ![i] =
           Write(@, {"OnSendToAllReq"}, <<ClientLobbyChatMessage(text, Host)>>)]
    /\ Spend("chat", i)
    /\ log' = [log EXCEPT !.chat_sent[i] = @ + 1]
    /\ UNCHANGED <<sesV, trV, rtcV, envV, app>>
    /\ Idle

set_local_player_data(i, data) ==
    LET st == [state[i] EXCEPT !.local_player_data = data]
        players == get_players(st, st.is_host)
    IN  /\ budget.data[i] > 0
        /\ data # state[i].local_player_data
        /\ state' = [state EXCEPT ![i] = st]
        /\ updates' = [updates EXCEPT ![i] =
               IF st.is_host THEN push(@, RosterUpdated(players)) ELSE @]
        /\ msgs' = [msgs EXCEPT ![i] =
               IF st.is_host
               THEN Write(@, {"OnSendToAllReq"}, <<HostLobbyInfoUpdate(players)>>)
               ELSE Write(@, {"OnSendToHostReq"}, <<ClientDataUpdate(data)>>)]
        /\ Spend("data", i)
        /\ log' = [log EXCEPT !.pushed[i] =
               IF st.is_host THEN Append(@, RosterUpdated(players)) ELSE @]
        /\ UNCHANGED <<lobby_state, host_flag, trV, rtcV, envV, app>>
        /\ Idle

read_updates(i) ==
    LET d == drain(updates[i])
    IN  /\ Len(updates[i]) > 0
        /\ updates' = [updates EXCEPT ![i] = d.queue]
        /\ log' = [log EXCEPT !.returned[i] = d.items,
                              !.reads[i] = 1 - @,
                              !.pushed[i] = <<>>,
                              !.stale[i] = 0]
        /\ UNCHANGED <<state, lobby_state, host_flag, msgs, trV, rtcV, envV, app, budget>>
        /\ Idle

\* the application on the host sets NextState<S>
change_state(i, v) ==
    /\ budget.change[i] > 0
    /\ host_flag[i]
    /\ lobby_state[i] = InLobby
    /\ v # app[i].cur
    /\ app' = [app EXCEPT ![i].cur = v]
    /\ Spend("change", i)
    /\ UNCHANGED <<sesV, msgs, trV, rtcV, envV, log>>
    /\ Idle

\* App::init_networked_state::<S>() while the application is built: S is a
\* registered type or the next type the application has not registered yet
init_networked_state(i, S) ==
    /\ lobby_state[i] = OutOfLobby
    /\ \/ S \in DOMAIN app[i].states.indexes /\ UNCHANGED budget
       \/ S = Len(app[i].states.readers) /\ budget.states[i] > 0 /\ Spend("states", i)
    /\ app' = [app EXCEPT ![i].states = register_state(@, S)]
    /\ UNCHANGED <<sesV, msgs, trV, rtcV, envV, log>>
    /\ Idle

\* SyncedEventRegister::register_event::<E>() called by the application
app_register_event(i, E) ==
    /\ lobby_state[i] = OutOfLobby
    /\ \/ E \in DOMAIN app[i].events.indexes /\ UNCHANGED budget
       \/ E = Len(app[i].events.readers) + 1 /\ budget.events[i] > 0 /\ Spend("events", i)
    /\ app' = [app EXCEPT ![i].events = register_event(@, E)]
    /\ UNCHANGED <<sesV, msgs, trV, rtcV, envV, log>>
    /\ Idle

----------------------------------------------------------------------------
\* The state after App::new() and the plugins' build

NoBudget == [i \in Inst |-> 0]

Fresh(b) ==
    /\ state = [i \in Inst |-> DefaultState]
    /\ lobby_state = [i \in Inst |-> OutOfLobby]
    /\ host_flag = [i \in Inst |-> FALSE]
    /\ updates = [i \in Inst |-> <<>>]
    /\ msgs = [i \in Inst |-> [c \in Chans |-> <<>>]]
    /\ sig = [i \in Inst |-> DefaultSig]
    /\ shared = [i \in Inst |-> DefaultShared]
    /\ inbox = [i \in Inst |-> <<>>]
    /\ id_alloc = [i \in Inst |-> 0]
    /\ net_conns = [i \in Inst |-> {}]
    /\ ctx = [i \in Inst |-> EmptyMap]
    /\ browser = EmptyMap
    /\ tasks = EmptyBag
    /\ docs = [c \in SeqToSet(RoomNames) |-> Null]
    /\ rng = [code |-> 1, cid |-> 1]
    /\ app = [i \in Inst |-> DefaultApp]
    /\ budget = b
    /\ frame = [turn |-> "-", ran |-> {}]
    /\ log = [pushed |-> [i \in Inst |-> <<>>], returned |-> [i \in Inst |-> <<>>],
              reads |-> [i \in Inst |-> 0], exited |-> [i \in Inst |-> FALSE],
              stale |-> [i \in Inst |-> 0], latest |-> [i \in Inst |-> EmptyMap],
              entered |-> [i \in Inst |-> ""], chats |-> [i \in Inst |-> <<>>],
              chat_sent |-> [i \in Inst |-> 0], kicked |-> [i \in Inst |-> {}],
              audience |-> [i \in Inst |-> {}], offers |-> [i \in Inst |-> 0],
              doc_seen |-> [i \in Inst |-> FALSE],
              null_seen |-> [i \in Inst |-> FALSE], published |-> [i \in Inst |-> 0],
              joins |-> [i \in Inst |-> 0], surfaced |-> [i \in Inst |-> <<>>],
              applied |-> [i \in Inst |-> 0], redundant |-> [i \in Inst |-> FALSE],
              answered |-> EmptyBag, written |-> EmptyBag,
              closed |-> [i \in Inst |-> {}], late |-> [i \in Inst |-> <<>>],
              sample |-> <<>>]

\* A lobby in steady state: h has created it, the clients cs have joined in
\* the order a, b, every negotiation is over, every queue is read and every
\* instance has polled within the last interval.
ClientNum(c) == IF c = "a" THEN 1 ELSE 2
ClientsOf(cs) == SelectSeq(<<"a", "b">>, LAMBDA c : c \in cs)
LobbySending(cs, b, from, chan, pending) ==
    LET code == generate_room_code(1)
        n == Cardinality(cs)
        order == ClientsOf(cs)
        roster == [k \in 1..n |-> PlayerInfo(ClientId(ClientNum(order[k])), DefaultPlayerData)]
        ids == {u64_to_string(ClientNum(c)) : c \in cs}
        mine(c) == u64_to_string(ClientNum(c))
    IN  /\ state = [i \in Inst |->
               IF i = "h" THEN [DefaultState EXCEPT !.is_host = TRUE, !.lobby_code = code,
                                                    !.players = roster]
               ELSE IF i \in cs
               THEN [DefaultState EXCEPT !.lobby_code = code,
                        !.players = <<PlayerInfo(Host, DefaultPlayerData)>> \o roster]
               ELSE DefaultState]
        /\ lobby_state = [i \in Inst |-> IF i \in cs \cup {"h"} THEN InLobby ELSE OutOfLobby]
        /\ host_flag = [i \in Inst |-> i = "h"]
        /\ updates = [i \in Inst |-> <<>>]
        /\ msgs = [i \in Inst |->
               [c \in Chans |-> IF i = from /\ c = chan THEN pending ELSE <<>>]]
        /\ sig = [i \in Inst |->
               IF i = "h" THEN [DefaultSig EXCEPT
                        !.room_code = code, !.is_host = TRUE, !.answered_clients = ids,
                        !.joined_clients = ids,
                        !.host_connection_to_client_id =
                            [k \in 1..n |-> u64_to_string(ClientNum(order[k]))]]
               ELSE IF i \in cs
               THEN [DefaultSig EXCEPT
                        !.room_code = code, !.client_id = Some(mine(i)),
                        !.client_answer_applied = TRUE, !.offer_conn = Some(1),
                        !.client_emitted_join = TRUE]
               ELSE DefaultSig]
        /\ shared = [i \in Inst |->
               IF i \in cs \cup {"h"}
               THEN [DefaultShared EXCEPT !.next_allowed_fetch_at_ms = PollIntervalMs,
                                          !.room_exists = (i = "h")]
               ELSE DefaultShared]
        /\ inbox = [i \in Inst |-> <<>>]
        /\ id_alloc = [i \in Inst |-> IF i = "h" THEN n ELSE IF i \in cs THEN 1 ELSE 0]
        /\ net_conns = [i \in Inst |-> IF i = "h" THEN 1..n ELSE IF i \in cs THEN {1} ELSE {}]
        /\ ctx = [i \in Inst |->
               IF i = "h" THEN [k \in 1..n |-> NewConnState]
               ELSE IF i \in cs THEN [k \in 1..1 |-> NewConnState] ELSE EmptyMap]
        /\ browser = [ep \in {<<"h", k>> : k \in 1..n} \cup {<<c, 1>> : c \in cs} |->
               [remote |-> IF ep[1] = "h" THEN Some(<<order[ep[2]], 1>>)
                           ELSE Some(<<"h", ClientNum(ep[1])>>),
                ready_state |-> "open"]]
        /\ tasks = EmptyBag
        /\ docs = [c \in SeqToSet(RoomNames) |->
               IF c = code
               THEN [offers |-> EmptyMap,
                     answers |-> IF n = 0 THEN EmptyMap
                                 ELSE MapPut(EmptyMap, u64_to_string(n),
                                             AnswerSdp(<<"h", n>>, <<order[n], 1>>))]
               ELSE Null]
        /\ rng = [code |-> 2, cid |-> n + 1]
        /\ app = [i \in Inst |->
               [DefaultApp EXCEPT
                   !.last = IF i = "h" THEN Some(InitialStateValue) ELSE None]]
        /\ budget = b
        /\ frame = [turn |-> "-", ran |-> {}]
        /\ log = [pushed |-> [i \in Inst |-> <<>>], returned |-> [i \in Inst |-> <<>>],
                  reads |-> [i \in Inst |-> 0], exited |-> [i \in Inst |-> FALSE],
                  stale |-> [i \in Inst |-> 0],
                  latest |-> [i \in Inst |->
                      IF i = "h" THEN [k \in {ClientNum(c) : c \in cs} |-> DefaultPlayerData]
                      ELSE EmptyMap],
                  entered |-> [i \in Inst |-> IF i \in cs \cup {"h"} THEN code ELSE ""],
                  chats |-> [i \in Inst |-> <<>>],
                  chat_sent |-> [i \in Inst |-> 0], kicked |-> [i \in Inst |-> {}],
                  audience |-> [i \in Inst |-> {}],
                  offers |-> [i \in Inst |-> IF i \in cs THEN 1 ELSE 0],
                  doc_seen |-> [i \in Inst |-> i \in cs \cup {"h"}],
                  null_seen |-> [i \in Inst |-> FALSE],
                  published |-> [i \in Inst |-> IF i \in cs THEN 1 ELSE 0],
                  joins |-> [i \in Inst |-> IF i \in cs THEN 1 ELSE 0],
                  surfaced |-> [i \in Inst |->
                      IF i = "h"
                      THEN [k \in 1..(2 * n) |->
                               <<IF k % 2 = 1 THEN "open" ELSE "data", (k + 1) \div 2>>]
                      ELSE IF i \in cs THEN <<<<"open", 1>>, <<"data", 1>>>> ELSE <<>>],
                  applied |-> [i \in Inst |-> IF i \in cs THEN 1 ELSE 0],
                  redundant |-> [i \in Inst |-> FALSE],
                  answered |-> SetToBag(ids),
                  written |-> SetToBag({"write_offer", "write_answer"} \X ids),
                  closed |-> [i \in Inst |-> {}], late |-> [i \in Inst |-> <<>>],
                  sample |-> pending]

\* the same lobby with nothing pending
Lobby(cs, b) == LobbySending(cs, b, "h", "OnSendToAllReq", <<>>)

\* the systems the plugins add to the Update schedule
Core(i) ==
    \/ state_update_system(i)
    \/ broadcast_roster_on_host(i)
    \/ handle_client_data_update_on_host(i)
    \/ intercept_data_messages(i)
    \/ send_local_data_after_enter(i)
    \/ encode_outgoing(i)
    \/ decode_incoming(i)
    \/ host_broadcast_state_change(i)

Signaling(i) ==
    \/ handle_create_join_requests(i)
    \/ handle_send_requests(i)
    \/ log_local_sdp_ready(i)
    \/ log_connection_open(i)
    \/ log_incoming_data(i)
    \/ firestore_pump(i)

Rtc(i) ==
    \/ handle_create_offer(i)
    \/ handle_create_answer(i)
    \/ handle_set_remote(i)
    \/ handle_send_data(i)
    \/ pump_js_callbacks(i)

Leaving(i) ==
    \/ on_external_lobby_exit(i)
    \/ message_update_system(i)
    \/ handle_exit_requests(i)
    \/ on_lobby_exit_cleanup(i)
    \/ handle_connection_closed(i)
    \/ handle_close_all(i)

Negotiation ==
    \/ task_ensure_created
    \/ \E i \in Inst : task_read_room(i)
    \/ task_signal
    \/ task_create_offer
    \/ task_create_answer
    \/ task_set_remote
    \/ data_channel_open

----------------------------------------------------------------------------
\* Join: one instance creates a lobby and a second one joins it with the code

Once(i) == [NoBudget EXCEPT ![i] = 1]

InitJoin ==
    Fresh([create |-> Once("h"), join |-> Once("a"),
           exit |-> NoBudget, kick |-> NoBudget, chat |-> NoBudget,
           data |-> NoBudget, change |-> NoBudget,
           states |-> NoBudget, events |-> NoBudget,
           ping |-> NoBudget])

SystemsJoin(i) == Core(i) \/ Signaling(i) \/ Rtc(i)

NextJoin ==
    \/ \E i \in Inst : SystemsJoin(i)
    \/ \E i \in Inst : frame_end(i, ENABLED SystemsJoin(i))
    \/ time_passes
    \/ Negotiation
    \/ \E i \in Inst : create_lobby(i)
    \/ \E i \in Inst : \E code \in KnownCodes : join_lobby(i, code)

SpecJoin == InitJoin /\ [][NextJoin]_vars

\* Every instance keeps running frames, time advances, and every request and
\* every step of the negotiation completes.
FairJoin ==
    /\ \A i \in {"h", "a"} : SF_vars(SystemsJoin(i))
    /\ WF_vars(\E i \in Inst : frame_end(i, ENABLED SystemsJoin(i)))
    /\ SF_vars(time_passes)
    /\ \A i \in {"h", "a"} : SF_vars(task_read_room(i))
    /\ SF_vars(task_ensure_created \/ task_signal \/ task_create_offer
                   \/ task_create_answer \/ task_set_remote \/ data_channel_open)

SpecJoinFair == SpecJoin /\ FairJoin

\* C5: once the second instance has asked to join the lobby the first one
\* created, both instances eventually have enqueued LobbyEntered with the same
\* code and both are InLobby.
C5_BothEnterLobby ==
    (log.joins["a"] > 0) ~>
        (/\ log.entered["h"] # "" /\ log.entered["a"] = log.entered["h"]
         /\ lobby_state["h"] = InLobby /\ lobby_state["a"] = InLobby)

C5_Witness ==
    /\ log.joins["a"] > 0
    /\ log.entered["h"] # "" /\ log.entered["a"] = log.entered["h"]
    /\ lobby_state["h"] = InLobby /\ lobby_state["a"] = InLobby

\* C6: a stored roster holds only the other participants: on the host no entry
\* carries the Host sentinel, and on a client none carries the client's own id.
C6_RosterHoldsOnlyOthers ==
    \A i \in Inst : \A k \in 1..Len(state[i].players) :
        LET id == state[i].players[k].id
            own == sig[i].client_id
        IN  /\ state[i].is_host => id # Host
            /\ IsSome(own) => id # ClientId(Unwrap(str_parse_u64(Unwrap(own))))

\* C10: a joining client has created an offer connection exactly when a fetch
\* has returned the room document, and then exactly one; before that it holds
\* no connection at all; it publishes at most one offer, and only for the
\* connection it created; and once the document was seen the offer is
\* eventually published.
C10_Safe ==
    \A i \in Inst :
        /\ ~sig[i].is_host =>
               log.offers[i] = (IF log.doc_seen[i] THEN 1 ELSE 0)
        /\ ~log.doc_seen[i] =>
               /\ ctx[i] = EmptyMap
               /\ sig[i].offer_conn = None
               /\ log.published[i] = 0
        /\ log.published[i] <= log.offers[i]
        /\ log.offers[i] <= log.joins[i]

C10_OneOfferOnceRoomSeen ==
    /\ []C10_Safe
    /\ (log.doc_seen["a"] /\ ~sig["a"].is_host) ~> (log.published["a"] = 1)

C10_Witness ==
    /\ log.null_seen["a"]
    /\ log.doc_seen["a"]
    /\ log.offers["a"] = 1
    /\ log.published["a"] = 1

C12_Once ==
    \A i \in Inst :
        ~sig[i].is_host =>
            /\ log.applied[i] <= log.joins[i]
            /\ sig[i].client_answer_applied <=> log.applied[i] = 1
            /\ \A k \in 1..Len(msgs[i]["SetRemote"]) :
                   Some(msgs[i]["SetRemote"][k].id) = sig[i].offer_conn

C12_RedundantStep ==
    \A i \in Inst :
        (/\ sig[i].client_answer_applied
         /\ \E k \in 1..Len(inbox[i]) : HoldsAnswer(inbox[i][k], sig[i])
         /\ inbox'[i] = <<>>)
            => /\ sig'[i] = sig[i]
               /\ msgs'[i] = msgs[i]
               /\ id_alloc'[i] = id_alloc[i]
               /\ ctx' = ctx /\ browser' = browser
               /\ log'.applied = log.applied

C12_AnswerAppliedOnce == []C12_Once /\ [][C12_RedundantStep]_vars

C12_Witness ==
    /\ log.redundant["a"]
    /\ log.applied["a"] = 1
    /\ browser[<<"a", 1>>].ready_state = "open"

\* the number of events of kind u that i has enqueued
Pushed(i, u) == Cardinality({k \in 1..Len(log.pushed[i]) : log.pushed[i][k].u = u})

\* the room-creation write of the lobby that i hosts has completed
RoomWritten(i) ==
    /\ docs[sig[i].room_code] # Null
    /\ \A t \in Pending("ensure_created") : t.i # i

\* C23: when a fetch reports that the room document does not exist, the next
\* fetch is issued no earlier than 1.5 s after that response and the condition
\* is logged; in all other cases fetches are issued at the 500 ms cadence.
C23_PumpStep ==
    \A i \in Inst :
        (Ran(i, "firestore_pump") /\ \E k \in 1..Len(inbox[i]) : inbox[i][k] = Null)
            => /\ shared'[i].next_allowed_fetch_at_ms >= NotFoundBackoffMs
               /\ shared'[i].not_found_logged

C23_BackoffAfterNotFound == [][C23_PumpStep]_vars

\* C25: after create_lobby() the host becomes InLobby and LobbyEntered is
\* enqueued only after the room-creation write has completed, and directly from
\* OutOfLobby.
C25_EnteredAfterRoomWritten ==
    \A i \in Inst :
        (sig[i].is_host /\ (lobby_state[i] = InLobby \/ Pushed(i, "LobbyEntered") > 0))
            => RoomWritten(i)

\* the host is never in the joining phase
C25_NoJoiningPhase == \A i \in Inst : sig[i].is_host => lobby_state[i] # JoiningLobby

\* C26: on a client the phase becomes InLobby, and LobbyJoined and LobbyEntered
\* are enqueued, only after the data channel of its offer connection has
\* opened, and at most once per join.
C26_EnteredAfterOpen ==
    \A i \in Inst :
        ~sig[i].is_host =>
            /\ (\/ lobby_state[i] = InLobby
                \/ msgs[i]["OnLobbyJoined"] # <<>>
                \/ msgs[i]["OnLobbyEntered@state_update_system"] # <<>>
                \/ Pushed(i, "LobbyJoined") + Pushed(i, "LobbyEntered") > 0)
                   => /\ IsSome(sig[i].offer_conn)
                      /\ <<"open", Unwrap(sig[i].offer_conn)>> \in SeqToSet(log.surfaced[i])
                      /\ sig[i].client_emitted_join
            /\ Pushed(i, "LobbyJoined") <= log.joins[i]
            /\ Pushed(i, "LobbyEntered") <= log.joins[i]
            /\ Pushed(i, "LobbyJoined") + Len(msgs[i]["OnLobbyJoined"]) <= log.joins[i]

\* the client has entered the lobby it joined
C26_Witness ==
    /\ log.joins["a"] = 1
    /\ lobby_state["a"] = InLobby
    /\ Pushed("a", "LobbyJoined") = 1
    /\ Pushed("a", "LobbyEntered") = 1

\* a client that has asked to join and whose channel has not opened is joining
C27_Joining ==
    \A i \in Inst :
        (~sig[i].is_host /\ IsSome(sig[i].client_id) /\ ~sig[i].client_emitted_join)
            => lobby_state[i] = JoiningLobby

\* the phase of a client moves along OutOfLobby, JoiningLobby, InLobby, OutOfLobby
C27_PhaseStep ==
    \A i \in Inst :
        (lobby_state'[i] # lobby_state[i] /\ ~state'[i].is_host)
            => <<lobby_state[i], lobby_state'[i]>>
                   \in {<<OutOfLobby, JoiningLobby>>, <<JoiningLobby, InLobby>>,
                        <<InLobby, OutOfLobby>>, <<JoiningLobby, OutOfLobby>>}

\* C27: the lobby phase follows OutOfLobby, JoiningLobby, InLobby, OutOfLobby: a
\* client that has issued join_lobby(code) is in JoiningLobby until its channel
\* opens, and a client reaches InLobby only from JoiningLobby.
C27_PhaseOrder == []C27_Joining /\ [][C27_PhaseStep]_vars

----------------------------------------------------------------------------
\* Leave: from a lobby of h and a, the client changes its player data, either
\* side leaves, the host kicks, and the applications read their updates

\* player-data changes the client makes
MaxDataUpdates == 2

InitLeave ==
    Lobby({"a"},
          [create |-> NoBudget, join |-> NoBudget,
           exit |-> [i \in Inst |-> IF i \in {"h", "a"} THEN 1 ELSE 0],
           kick |-> Once("h"), chat |-> NoBudget,
           data |-> [NoBudget EXCEPT !["a"] = MaxDataUpdates], change |-> NoBudget,
           states |-> NoBudget, events |-> NoBudget,
           ping |-> NoBudget])

SystemsLeave(i) ==
    \/ state_update_system(i)
    \/ broadcast_roster_on_host(i)
    \/ handle_client_data_update_on_host(i)
    \/ intercept_data_messages(i)
    \/ encode_outgoing(i)
    \/ decode_incoming(i)
    \/ handle_send_requests(i)
    \/ handle_kick_requests(i)
    \/ log_incoming_data(i)
    \/ handle_send_data(i)
    \/ pump_js_callbacks(i)
    \/ handle_close_connection(i)
    \/ Leaving(i)

NextLeave ==
    \/ \E i \in Inst : SystemsLeave(i)
    \/ \E i \in Inst : frame_end(i, ENABLED SystemsLeave(i))
    \/ remote_closed
    \/ connection_state_change
    \/ \E i \in Inst : exit_lobby(i)
    \/ \E i \in Inst : \E c \in 1..2 : kick(i, c)
    \/ \E i \in Inst : \E d \in PlayerDataValues : set_local_player_data(i, d)
    \/ \E i \in Inst : read_updates(i)

SpecLeave == InitLeave /\ [][NextLeave]_vars

\* nothing is left for instance i to process: every message is read and every
\* callback of its connections is pumped
Quiet(i) ==
    /\ frame.turn = "-"
    /\ \A c \in Chans : msgs[i][c] = <<>>
    /\ \A id \in DOMAIN ctx[i] :
           /\ ctx[i][id].pending_messages = <<>>
           /\ ~ctx[i][id].pending_open
           /\ ~ctx[i][id].pending_closed

RosterIds(i) == {state[i].players[k].id : k \in 1..Len(state[i].players)}
ConnectedIds(i) == {ClientId(Unwrap(str_parse_u64(c))) : c \in sig[i].joined_clients}

\* C1: when the host has processed every data update and every roster-changed
\* notification it received, its roster holds exactly the client ids the
\* transport reports as connected, each once, each with the data most recently
\* received from that client.
C1_HostRosterIsConnectedSet ==
    (Quiet("h") /\ state["h"].is_host) =>
        /\ RosterIds("h") = ConnectedIds("h")
        /\ Len(state["h"].players) = Cardinality(ConnectedIds("h"))
        /\ \A k \in 1..Len(state["h"].players) :
               LET p == state["h"].players[k]
               IN  p.id[2] \in DOMAIN log.latest["h"] /\ p.data = log.latest["h"][p.id[2]]

\* C2: from the processing of an exit request or of a transport-reported exit
\* until the next create or join, the session is OutOfLobby, not host, without
\* lobby code and with an empty roster.
C2_ResetAfterExit ==
    \A i \in Inst :
        log.exited[i] =>
            /\ lobby_state[i] = OutOfLobby
            /\ ~state[i].is_host
            /\ ~host_flag[i]
            /\ state[i].lobby_code = ""
            /\ state[i].players = <<>>

\* C3: once the exit of a session is processed, the update queue holds no
\* event that was enqueued before the exit.
C3_QueueEmptiedOnExit == \A i \in Inst : log.stale[i] = 0

\* C4: the queue holds the events pushed since the last drain in the order of
\* the pushes, and a read returns exactly these, in that order, and leaves the
\* queue empty.
C4_ReadStep ==
    \A i \in Inst :
        log.reads[i]' # log.reads[i] =>
            /\ log.returned[i]' = log.pushed[i]
            /\ updates[i]' = <<>>
            /\ log.pushed[i]' = <<>>

C4_DrainInPushOrder ==
    /\ [](\A i \in Inst : updates[i] = log.pushed[i])
    /\ [][C4_ReadStep]_vars

C4_Witness ==
    \E i \in Inst :
        /\ log.reads[i] = 1
        /\ Len(log.returned[i]) >= 2
        /\ log.returned[i][1] # log.returned[i][2]
        /\ Len(updates[i]) > 0

\* C8: once the host has processed the kick of a client and everything it
\* received, neither its connected-client set nor its roster contains the
\* kicked client.
C8_KickedClientGone ==
    (Quiet("h") /\ state["h"].is_host) =>
        \A c \in log.kicked["h"] :
            /\ c \notin sig["h"].joined_clients
            /\ ClientId(Unwrap(str_parse_u64(c))) \notin RosterIds("h")

\* ConnectionOpen and ConnectionClosed were written at most once for a connection
C15_OncePerConnection ==
    \A i \in Inst : \A j, k \in 1..Len(log.surfaced[i]) :
        log.surfaced[i][j] = log.surfaced[i][k] => j = k

\* pump_js_callbacks writes one IncomingData for each frame a connection
\* received, in the order of arrival, and keeps none of them
C15_PumpStep ==
    \A i \in Inst : Ran(i, "pump_js_callbacks") =>
        LET written == SubSeq(msgs'[i]["IncomingData"], Len(msgs[i]["IncomingData"]) + 1,
                              Len(msgs'[i]["IncomingData"]))
        IN  \A id \in DOMAIN ctx[i] :
                /\ MapSeq(SelectSeq(written, LAMBDA x : x.id = id), LAMBDA x : x.text)
                       = ctx[i][id].pending_messages
                /\ ctx'[i][id].pending_messages = <<>>

\* the events pushed since the application last read the queue hold at most
\* one LobbyExited
C15_ExitedOnce ==
    \A i \in Inst :
        Cardinality({k \in 1..Len(log.pushed[i]) : log.pushed[i][k].u = "LobbyExited"}) <= 1

\* C15: no transport event is delivered twice: ConnectionOpen and
\* ConnectionClosed are surfaced at most once per connection id, every received
\* frame yields exactly one IncomingData, and a session enqueues at most one
\* LobbyExited.
C15_NoEventTwice ==
    [](C15_OncePerConnection /\ C15_ExitedOnce) /\ [][C15_PumpStep]_vars

\* the SendData x of instance i names a connection with an open channel
Sendable(i, x) == x.id \in DOMAIN ctx[i] /\ browser[<<i, x.id>>].ready_state = "open"

\* handle_send_data consumes every SendData; what cannot be sent changes
\* nothing, and a connection receives only what was sent to it on an open channel
C16_SendDataStep ==
    \A i \in Inst : Ran(i, "handle_send_data") =>
        LET ev == msgs[i]["SendData"]
            sent(ep) == SelectSeq(ev, LAMBDA x : /\ Sendable(i, x)
                                                  /\ browser[<<i, x.id>>].remote = Some(ep))
        IN  /\ msgs'[i]["SendData"] = <<>>
            /\ \A c \in Chans \ {"SendData"} : msgs'[i][c] = msgs[i][c]
            /\ UNCHANGED <<sesV, trV, browser, envV>>
            /\ (\A k \in 1..Len(ev) : ~Sendable(i, ev[k])) => UNCHANGED ctx
            /\ \A j \in Inst : \A id \in DOMAIN ctx[j] :
                   LET old == ctx[j][id].pending_messages
                       new == ctx'[j][id].pending_messages
                   IN  \/ new = old
                       \/ new = old \o MapSeq(sent(<<j, id>>), LAMBDA x : x.text)

\* handle_send_requests consumes every request; it writes SendData only for
\* connections it knows, and nothing for a client id that maps to no connection
C16_SendRequestsStep ==
    \A i \in Inst : Ran(i, "handle_send_requests") =>
        LET written == SubSeq(msgs'[i]["SendData"], Len(msgs[i]["SendData"]) + 1,
                              Len(msgs'[i]["SendData"]))
            hmap == sig[i].host_connection_to_client_id
            known(cid) == \E c \in DOMAIN hmap : hmap[c] = u64_to_string(cid)
            wanted == msgs[i]["OnTransportSendToClient"]
        IN  /\ \A c \in {"OnTransportSendToAll", "OnTransportSendToHost",
                         "OnTransportSendToClient", "OnTransportRelayToAllExcept"} :
                   msgs'[i][c] = <<>>
            /\ \A k \in 1..Len(written) : written[k].id \in net_conns[i] \cup DOMAIN hmap
            /\ (/\ msgs[i]["OnTransportSendToAll"] = <<>>
                /\ msgs[i]["OnTransportRelayToAllExcept"] = <<>>
                /\ msgs[i]["OnTransportSendToHost"] # <<>> => Cardinality(net_conns[i]) # 1
                /\ \A k \in 1..Len(wanted) : ~(sig[i].is_host /\ known(wanted[k].cid)))
                   => written = <<>>
            /\ UNCHANGED <<sesV, trV, rtcV, envV>>

\* C16: a send to a connection whose channel is not open, or to a connection
\* or client id that is not known, is dropped silently: the request is
\* consumed, no state changes, and nothing is delivered for it later.
C16_DroppedSilently == [][C16_SendDataStep /\ C16_SendRequestsStep]_vars

\* the host is about to handle a send to a client id that maps to no connection
C16_Witness ==
    LET hmap == sig["h"].host_connection_to_client_id
        wanted == msgs["h"]["OnTransportSendToClient"]
    IN  /\ \E k \in 1..Len(wanted) :
               \A c \in DOMAIN hmap : hmap[c] # u64_to_string(wanted[k].cid)
        /\ frame.turn = "h" /\ "handle_send_requests" \notin frame.ran

\* a SendData for a connection whose channel has closed is pending
C16_ClosedChannel ==
    \E i \in Inst :
        /\ \E k \in 1..Len(msgs[i]["SendData"]) : ~Sendable(i, msgs[i]["SendData"][k])
        /\ frame.turn = i /\ "handle_send_data" \notin frame.ran

----------------------------------------------------------------------------
\* Relay: in a lobby of h, a and b the clients chat and the host's application
\* changes the synced state

\* chat messages a client sends, and changes of the synced state on the host
MaxChats == 2
MaxStateChanges == 2

InitRelay ==
    Lobby({"a", "b"},
          [create |-> NoBudget, join |-> NoBudget, exit |-> NoBudget, kick |-> NoBudget,
           chat |-> [i \in Inst |-> IF i \in {"a", "b"} THEN MaxChats ELSE 0],
           data |-> NoBudget,
           change |-> [NoBudget EXCEPT !["h"] = MaxStateChanges],
           states |-> NoBudget, events |-> NoBudget,
           ping |-> NoBudget])

SystemsRelay(i) ==
    \/ handle_client_data_update_on_host(i)
    \/ intercept_data_messages(i)
    \/ encode_outgoing(i)
    \/ decode_incoming(i)
    \/ host_broadcast_state_change(i)
    \/ handle_send_requests(i)
    \/ log_incoming_data(i)
    \/ handle_send_data(i)
    \/ pump_js_callbacks(i)

NextRelay ==
    \/ \E i \in Inst : SystemsRelay(i)
    \/ \E i \in Inst : frame_end(i, ENABLED SystemsRelay(i))
    \/ \E i \in Inst : \E t \in Texts : send_message_to_host(i, t)
    \/ \E i \in Inst : \E v \in StateValues : change_state(i, v)

SpecRelay == InitRelay /\ [][NextRelay]_vars

Count(seq, P(_)) == Cardinality({k \in 1..Len(seq) : P(seq[k])})
Clients == {"a", "b"}

\* every instance has processed everything it was sent, and the host has
\* published its current state value
QuietAll ==
    /\ \A i \in Inst : Quiet(i)
    /\ app["h"].last = Some(app["h"].cur)

\* C7: a chat text sent by client A is enqueued on the host and on every other
\* client as ClientChat with A's transport-attributed id, at most once per
\* message sent (exactly once when everything is delivered), and never on A
\* itself; the id A embedded in the message (ClientId(0)) never shows.
C7_ChatRelayedOnceToOthers ==
    /\ \A i \in Inst : \A k \in 1..Len(log.chats[i]) :
           /\ log.chats[i][k].u = "ClientChat"
           /\ log.chats[i][k].client_id \in {ClientNum(c) : c \in Clients \ {i}}
    /\ \A c \in Clients : \A i \in Inst \ {c} :
           LET n == Count(log.chats[i], LAMBDA e : e.client_id = ClientNum(c))
           IN  /\ n <= log.chat_sent[c]
               /\ QuietAll => n = log.chat_sent[c]

C7_Witness ==
    /\ QuietAll
    /\ log.chat_sent["a"] > 0
    /\ log.chats["h"] # <<>>
    /\ log.chats["b"] # <<>>
    /\ \A k \in 1..Len(log.chats["b"]) : log.chats["b"][k] = ClientChat(ClientNum("a"), "hi")

SyncsSent(i) ==
    SelectSeq(Routed(i, "OnTransportSendToAll"), LAMBDA x : x[1] = "StateSync")

C32_SyncStep ==
    \A i \in Inst :
        /\ Ran(i, "host_broadcast_state_change") =>
               /\ host_flag[i]
               /\ app[i].last # Some(app[i].cur)
               /\ app'[i].last = Some(app[i].cur)
               /\ SyncsSent(i) = <<EncodeP2PData(
                      StateSync(app[i].states.indexes[AppStateType],
                                EncodeState(app[i].cur)))>>
        /\ ~Ran(i, "host_broadcast_state_change") =>
               /\ SyncsSent(i) = <<>>
               /\ app'[i].last = app[i].last
        /\ (frame.turn = i /\ frame'.turn = "-" /\ host_flag[i]) =>
               app[i].last = Some(app[i].cur)

\* C32: in each tick in which the instance is host, a state-sync message for a
\* registered state type is sent if and only if the type's current value
\* differs from the value last broadcast for it (initially none), and it
\* carries the type's registered index; while the instance is not host nothing
\* is sent and the last-broadcast value is unchanged.
C32_SyncOnChange == [][C32_SyncStep]_vars

\* the host has broadcast a second value of its state, and a client whose own
\* value differs from what it last broadcast (nothing) has ended a tick
C32_Witness ==
    /\ app["h"].cur # InitialStateValue
    /\ app["h"].last = Some(app["h"].cur)
    /\ frame.turn = "-"
    /\ \E c \in Clients : app[c].cur = app["h"].cur /\ app[c].last = None

----------------------------------------------------------------------------
\* Sending while connections go away: a lobby of the host, a and b in which a
\* chats and pings, the host kicks and b leaves.

MaxPings == 1

InitSend ==
    Lobby({"a", "b"},
          [create |-> NoBudget, join |-> NoBudget, exit |-> Once("b"), kick |-> Once("h"),
           chat |-> Once("a"),
           data |-> NoBudget, change |-> NoBudget, states |-> NoBudget, events |-> NoBudget,
           ping |-> [NoBudget EXCEPT !["a"] = MaxPings]])

SystemsSend(i) ==
    \/ state_update_system(i)
    \/ broadcast_roster_on_host(i)
    \/ handle_client_data_update_on_host(i)
    \/ intercept_data_messages(i)
    \/ send_ping(i)
    \/ encode_outgoing(i)
    \/ decode_incoming(i)
    \/ handle_send_requests(i)
    \/ handle_kick_requests(i)
    \/ log_incoming_data(i)
    \/ handle_send_data(i)
    \/ pump_js_callbacks(i)
    \/ handle_close_connection(i)
    \/ on_external_lobby_exit(i)
    \/ handle_exit_requests(i)
    \/ on_lobby_exit_cleanup(i)
    \/ handle_connection_closed(i)
    \/ handle_close_all(i)

NextSend ==
    \/ \E i \in Inst : SystemsSend(i)
    \/ \E i \in Inst : frame_end(i, ENABLED SystemsSend(i))
    \/ remote_closed
    \/ \E i \in Inst : exit_lobby(i)
    \/ \E i \in Inst : \E c \in 1..2 : kick(i, c)
    \/ \E i \in Inst : \E t \in Texts : send_message_to_host(i, t)

SpecSend == InitSend /\ [][NextSend]_vars

\* the connection ids of the events pump_js_callbacks wrote in the step
SurfacedIds(i) ==
    SeqToSet(Routed(i, "ConnectionOpen")) \cup SeqToSet(Routed(i, "ConnectionClosed"))
        \cup {x.id : x \in SeqToSet(Routed(i, "IncomingData"))}
        \cup {x.id : x \in SeqToSet(Routed(i, "LocalSdpReady"))}

C33_NoRecord == \A i \in Inst : log.closed[i] \cap DOMAIN ctx[i] = {}

C33_PollStep ==
    \A i \in Inst :
        /\ SurfacedIds(i) \cap log.closed[i] = {}
        /\ \A id \in DOMAIN ctx'[i] \ DOMAIN ctx[i] : <<i, id>> \notin DOMAIN browser

\* C33: after a connection has been closed by CloseConnection(id),
\* CloseAllConnections, kick or exit (its record is removed from the map), no
\* ConnectionOpen, ConnectionClosed, IncomingData or LocalSdpReady for that id
\* is surfaced by any later poll, even if the underlying async operation or
\* callback completes afterwards; connection ids are never reused for another
\* connection.
C33_ClosedStaysSilent == []C33_NoRecord /\ [][C33_PollStep]_vars

\* the host has closed the connection of a; a, whose channel still reads open,
\* has sent its chat and its ping, and the host has surfaced neither
C33_Witness ==
    /\ 1 \in log.closed["h"]
    /\ browser[<<"a", 1>>].ready_state = "open"
    /\ log.chat_sent["a"] > 0
    /\ \A c \in Chans : msgs["a"][c] = <<>> /\ msgs["h"][c] = <<>>
    /\ frame.turn = "-"
    /\ log.chats["h"] = <<>>

\* Sending to the host: a lobby of h, a and b; the host kicks and leaves, h and
\* a have a ping to send.
InitToHost ==
    Lobby({"a", "b"},
          [create |-> NoBudget, join |-> NoBudget, exit |-> Once("h"), kick |-> Once("h"),
           chat |-> NoBudget,
           data |-> NoBudget, change |-> NoBudget, states |-> NoBudget, events |-> NoBudget,
           ping |-> [i \in Inst |-> IF i \in {"h", "a"} THEN MaxPings ELSE 0]])

NextToHost ==
    \/ \E i \in Inst : SystemsSend(i)
    \/ \E i \in Inst : frame_end(i, ENABLED SystemsSend(i))
    \/ remote_closed
    \/ exit_lobby("h")
    \/ \E c \in 1..2 : kick("h", c)

SpecToHost == InitToHost /\ [][NextToHost]_vars

\* the peer at the other end of connection id of i
PeerOf(i, id) ==
    IF <<i, id>> \in DOMAIN browser /\ IsSome(browser[<<i, id>>].remote)
    THEN Some(Unwrap(browser[<<i, id>>].remote)[1]) ELSE None

C38_ToHostStep ==
    \A i \in Inst : Ran(i, "handle_send_requests") =>
        LET m == msgs[i]
            written == Routed(i, "SendData")
            other == SeqToSet(m["OnTransportSendToAll"])
                         \cup {x.text : x \in SeqToSet(m["OnTransportSendToClient"])}
                         \cup {x.text : x \in SeqToSet(m["OnTransportRelayToAllExcept"])}
        IN  /\ \A t \in SeqToSet(m["OnTransportSendToHost"]) \ other :
                   LET hits == SelectSeq(written, LAMBDA x : x.text = t)
                   IN  IF Cardinality(net_conns[i]) = 1
                       THEN /\ Len(hits) = Count(m["OnTransportSendToHost"], LAMBDA x : x = t)
                            /\ \A k \in 1..Len(hits) : hits[k].id \in net_conns[i]
                       ELSE hits = <<>>
            /\ ~sig[i].is_host =>
                   \A k \in 1..Len(written) : PeerOf(i, written[k].id) \in {None, Some("h")}

\* C38: a send-to-host is transmitted on the instance's only connection when
\* it holds exactly one connection, and is dropped when it holds none or more
\* than one; it is never transmitted on more than one connection, and a
\* client's send-to-host never reaches a peer other than the host.
C38_ToHostOnOnlyConnection == [][C38_ToHostStep]_vars

\* handle_send_requests is about to take a send-to-host with i holding n connections
ToHostPending(i, n) ==
    /\ msgs[i]["OnTransportSendToHost"] # <<>>
    /\ Cardinality(net_conns[i]) = n
    /\ "handle_send_requests" \notin frame.ran

\* a client is about to send to the host on its only connection
C38_Witness == ToHostPending("a", 1) /\ ~sig["a"].is_host

\* an instance with two connections is about to drop a send-to-host
C38_WitnessMany == \E i \in Inst : ToHostPending(i, 2)

\* an instance without a connection is about to drop a send-to-host
C38_WitnessNone == \E i \in Inst : ToHostPending(i, 0)

C37_ExitStep ==
    \A i \in Inst :
        /\ Pushed(i, "LobbyExited")' > Pushed(i, "LobbyExited")
               => Ran(i, "on_external_lobby_exit")
        /\ Ran(i, "on_external_lobby_exit")
               => /\ Pushed(i, "LobbyExited")' = Pushed(i, "LobbyExited") + 1
                  /\ Last(log.pushed'[i]) =
                         LobbyExited(Last(msgs[i]["OnLobbyExit@on_external_lobby_exit"]))
                  /\ Last(updates'[i]) = Last(log.pushed'[i])
        /\ (Ran(i, "state_update_system")
              /\ msgs[i]["OnExitLobbyReq@state_update_system"] # <<>>
              /\ ~Ran(i, "on_external_lobby_exit"))
               => Pushed(i, "LobbyExited")' = Pushed(i, "LobbyExited")

\* C37: a local exit_lobby() enqueues no LobbyExited event; LobbyExited is
\* enqueued only when the transport reports the exit, and then exactly one per
\* tick, carrying the last reason reported in that tick.
C37_ExitedOnlyFromTransport == [][C37_ExitStep]_vars

\* a has left by exit_lobby() without a LobbyExited, and b has been told by the
\* transport that the lobby is gone and holds one LobbyExited
C37_Witness ==
    /\ budget.exit["a"] = 0 /\ lobby_state["a"] = OutOfLobby
    /\ Pushed("a", "LobbyExited") = 0
    /\ lobby_state["b"] = OutOfLobby
    /\ Pushed("b", "LobbyExited") = 1

\* the systems the transport plugins add to Update
TransportSystems ==
    {"handle_create_join_requests", "handle_send_requests", "handle_exit_requests",
     "handle_kick_requests", "log_local_sdp_ready", "log_connection_open",
     "log_incoming_data", "handle_connection_closed", "firestore_pump",
     "on_lobby_exit_cleanup", "handle_create_offer", "handle_create_answer",
     "handle_set_remote", "handle_send_data", "pump_js_callbacks",
     "handle_close_connection", "handle_close_all"}

\* the place of a system in the order negotiate transport events, update
\* session state, route messages, reconcile roster, encode outgoing
Stage(name) ==
    CASE name \in TransportSystems -> 1
      [] name = "state_update_system" -> 2
      [] name = "intercept_data_messages" -> 3
      [] name = "broadcast_roster_on_host" -> 4
      [] name = "encode_outgoing" -> 5
      [] OTHER -> 0

C34_OrderStep ==
    \A i \in Inst : \A name \in frame'.ran \ frame.ran :
        (frame'.turn = i /\ Stage(name) > 0) =>
            \A earlier \in frame.ran : Stage(earlier) <= Stage(name)

\* C34: within every tick the processing stages run in the fixed order
\* transport event negotiation, then session state update, then message
\* routing, then roster reconciliation, then encoding of outgoing messages; no
\* stage acts on roster or session data that an earlier stage of the same tick
\* has yet to update.
C34_FixedOrder == [][C34_OrderStep]_vars

\* state_update_system is chained before the other systems of the Core set
C34_StateFirstStep ==
    \A i \in Inst : \A name \in frame'.ran \ frame.ran :
        (frame'.turn = i /\ name = "state_update_system") =>
            \A earlier \in frame.ran : Stage(earlier) <= 2

C34_StateUpdateFirst == [][C34_StateFirstStep]_vars

----------------------------------------------------------------------------
\* Kicking: a lobby of the host, a and b in which the host and a call kick, for
\* a client that is connected, that was kicked before or that never joined, and
\* a leaves.

MaxKicks == 2

InitKick ==
    Lobby({"a", "b"},
          [create |-> NoBudget, join |-> NoBudget, exit |-> Once("a"),
           kick |-> [i \in Inst |-> IF i = "h" THEN MaxKicks ELSE IF i = "a" THEN 1 ELSE 0],
           chat |-> NoBudget, data |-> NoBudget, change |-> NoBudget,
           states |-> NoBudget, events |-> NoBudget, ping |-> NoBudget])

SystemsKick(i) ==
    \/ state_update_system(i)
    \/ broadcast_roster_on_host(i)
    \/ intercept_data_messages(i)
    \/ encode_outgoing(i)
    \/ decode_incoming(i)
    \/ handle_send_requests(i)
    \/ handle_kick_requests(i)
    \/ log_incoming_data(i)
    \/ handle_send_data(i)
    \/ pump_js_callbacks(i)
    \/ handle_close_connection(i)
    \/ on_external_lobby_exit(i)
    \/ handle_exit_requests(i)
    \/ on_lobby_exit_cleanup(i)
    \/ handle_connection_closed(i)
    \/ handle_close_all(i)

NextKick ==
    \/ \E i \in Inst : SystemsKick(i)
    \/ \E i \in Inst : frame_end(i, ENABLED SystemsKick(i))
    \/ remote_closed
    \/ connection_state_change
    \/ \E i \in Inst : exit_lobby(i)
    \/ \E i \in Inst : \E c \in 1..3 : kick(i, c)

SpecKick == InitKick /\ [][NextKick]_vars

\* the client ids among the pending kick requests of i that map to a connection
Kickable(i) ==
    IF sig[i].is_host
    THEN { c \in SeqToSet(msgs[i]["OnKickReq"]) :
             IsSome(ConnOfClient(sig[i].host_connection_to_client_id, u64_to_string(c))) }
    ELSE {}

\* handle_kick_requests closes one connection and reports one roster for every
\* client it can kick; when there is none it only consumes the requests
C17_KickStep ==
    \A i \in Inst : Ran(i, "handle_kick_requests") =>
        /\ msgs'[i]["OnKickReq"] = <<>>
        /\ Len(msgs'[i]["CloseConnection"])
               = Len(msgs[i]["CloseConnection"]) + Cardinality(Kickable(i))
        /\ Len(msgs'[i]["OnTransportRosterChanged"])
               = Len(msgs[i]["OnTransportRosterChanged"]) + Cardinality(Kickable(i))
        /\ UNCHANGED <<sesV, shared, inbox, id_alloc, rtcV, envV>>
        /\ Kickable(i) = {} =>
               /\ UNCHANGED <<sig, net_conns>>
               /\ \A c \in Chans \ {"OnKickReq"} : msgs'[i][c] = msgs[i][c]

C17_NonHost == msgs["a"]["OnKickReq"] # <<>> /\ lobby_state["a"] = InLobby

\* the roster entry p names a client that every list of lists reports connected
Connected(p, lists) ==
    p.id = Host \/ \A k \in 1..Len(lists) : u64_to_string(p.id[2]) \in lists[k]

C31_ReconcileStep ==
    \A i \in Inst : Ran(i, "broadcast_roster_on_host") =>
        LET lists == msgs[i]["OnTransportRosterChanged"]
            pruned == SelectSeq(state[i].players, LAMBDA p : Connected(p, lists))
            sent == Routed(i, "OnSendToAllReq")
            evs == SubSeq(updates'[i], Len(updates[i]) + 1, Len(updates'[i]))
        IN  /\ state[i].is_host
            /\ state'[i] = [state[i] EXCEPT !.players = pruned]
            /\ Len(sent) = Len(lists)
            /\ Last(sent) = HostLobbyInfoUpdate(get_players(state'[i], TRUE))
            /\ Len(evs) = Len(lists)
            /\ Last(evs) = RosterUpdated(get_players(state'[i], TRUE))

\* C31: when the transport reports the set of currently connected client ids,
\* the host removes exactly the roster entries whose client id is not in that
\* set, keeps the remaining entries unchanged and in order, and then broadcasts
\* the pruned roster to all clients and enqueues RosterUpdated; a non-host
\* leaves its roster unchanged (the system does not run on it).
C31_RosterReconciled == [][C31_ReconcileStep]_vars

\* the host has pruned one of its two clients and the client that stayed holds
\* the pruned roster
C31_Witness ==
    /\ Len(state["h"].players) = 1
    /\ \E k \in 1..Len(log.pushed["h"]) :
           log.pushed["h"][k] = RosterUpdated(get_players(state["h"], TRUE))
    /\ \E c \in Clients :
           /\ lobby_state[c] = InLobby
           /\ state[c].players = get_players(state["h"], TRUE)

----------------------------------------------------------------------------
\* A second lobby: from a lobby of h and a in which both keep polling, either
\* the host kicks the client and the client joins once more, or the host leaves
\* and creates a lobby again.

InitRejoin ==
    \E again \in {"join", "create"} :
        Lobby({"a"},
              [create |-> IF again = "create" THEN Once("h") ELSE NoBudget,
               join |-> IF again = "join" THEN Once("a") ELSE NoBudget,
               exit |-> IF again = "create" THEN Once("h") ELSE NoBudget,
               kick |-> IF again = "join" THEN Once("h") ELSE NoBudget,
               chat |-> NoBudget, data |-> NoBudget,
               change |-> NoBudget, states |-> NoBudget, events |-> NoBudget,
               ping |-> NoBudget])

SystemsRejoin(i) ==
    \/ state_update_system(i)
    \/ broadcast_roster_on_host(i)
    \/ handle_client_data_update_on_host(i)
    \/ intercept_data_messages(i)
    \/ send_local_data_after_enter(i)
    \/ encode_outgoing(i)
    \/ decode_incoming(i)
    \/ Signaling(i) \/ Rtc(i)
    \/ on_external_lobby_exit(i)
    \/ handle_exit_requests(i)
    \/ on_lobby_exit_cleanup(i)
    \/ handle_connection_closed(i)
    \/ handle_close_all(i)
    \/ handle_kick_requests(i)
    \/ handle_close_connection(i)

NextRejoin ==
    \/ \E i \in Inst : SystemsRejoin(i)
    \/ \E i \in Inst : frame_end(i, ENABLED SystemsRejoin(i))
    \/ time_passes
    \/ Negotiation
    \/ remote_closed
    \/ kick("h", 1)
    \/ exit_lobby("h")
    \/ create_lobby("h")
    \/ \E code \in KnownCodes : join_lobby("a", code)

SpecRejoin == InitRejoin /\ [][NextRejoin]_vars

\* the fetches of i that have not returned
Outstanding(i) ==
    LET mine == {t \in Pending("read_room") : t.i = i}
    IN  BagCardinality([t \in mine |-> tasks[t]])

\* the creation write of the room i hosts has completed
Created(i) ==
    ~\E e \in Pending("ensure_created") : e.i = i /\ e.arg = sig[i].room_code

\* the fetches of its own room a host has outstanding
OwnFetches(i) ==
    {t \in Pending("read_room") : t.i = i /\ sig[i].is_host /\ t.arg = sig[i].room_code}

\* a create, join or exit of i is being processed in the running tick
Processing(i) ==
    /\ frame.turn = i
    /\ \/ \E c \in {"OnCreateLobbyReq", "OnJoinLobbyReq", "OnLobbyCreated", "OnLobbyJoined"}
                     \cup OnExitLobbyReq \cup OnLobbyExit : msgs[i][c] # <<>>
       \/ frame.ran \cap {"handle_create_join_requests", "handle_exit_requests",
                          "on_lobby_exit_cleanup", "on_external_lobby_exit",
                          "state_update_system"} # {}

RolesAgree(i) == state[i].is_host = sig[i].is_host /\ host_flag[i] = state[i].is_host

\* the systems of the router that branch on EasyP2PState.is_host
RouterSystems ==
    {"intercept_data_messages", "broadcast_roster_on_host",
     "handle_client_data_update_on_host", "send_local_data_after_enter", "send_ping"}

C35_RouterStep ==
    \A i \in Inst :
        (state[i].is_host /\ \E name \in RouterSystems : Ran(i, name)) => sig[i].is_host

InitLate ==
    Lobby({}, [create |-> NoBudget, join |-> Once("a"),
               exit |-> NoBudget, kick |-> NoBudget, chat |-> NoBudget,
               data |-> NoBudget, change |-> Once("h"),
               states |-> NoBudget, events |-> NoBudget,
               ping |-> NoBudget])

NextLate ==
    \/ \E i \in Inst : SystemsJoin(i)
    \/ \E i \in Inst : frame_end(i, ENABLED SystemsJoin(i))
    \/ time_passes
    \/ \E i \in Inst : task_read_room(i)
    \/ task_signal
    \/ task_create_offer
    \/ task_create_answer
    \/ task_set_remote
    \/ data_channel_open
    \/ \E code \in KnownCodes : join_lobby("a", code)
    \/ budget.join["a"] > 0 /\ \E v \in StateValues : change_state("h", v)

SpecLate == InitLate /\ [][NextLate]_vars

SpecLateFair == SpecLate /\ FairJoin

\* a is in the lobby and the host's application has made its last change
EnteredAfterChange ==
    /\ lobby_state["a"] = InLobby
    /\ budget.change["h"] = 0

\* C39: a client that enters the lobby after the host's most recent change of
\* a registered state eventually holds the host's current value of that state,
\* without the host changing the value again.
C39_LateJoinerSynced == EnteredAfterChange ~> (app["a"].cur = app["h"].cur)

\* the client ids that host_connection_to_client_id maps some connection to
MappedClients(i) ==
    {sig[i].host_connection_to_client_id[c] : c \in DOMAIN sig[i].host_connection_to_client_id}

C40_WitnessKick ==
    /\ sig["h"].is_host
    /\ budget.kick["h"] = 0
    /\ id_alloc["h"] > 1
    /\ sig["h"].joined_clients # {}
    /\ sig["h"].joined_clients = MappedClients("h")

C36_DrainStep ==
    \A i \in Inst :
        Ran(i, "firestore_pump") => \A k \in 1..Len(log.late[i]) : ~log.late[i][k]

\* C36: a fetch response or room-created confirmation produced by an async
\* task that was started before an exit is never applied in a later session:
\* firestore_pump never drains it, so that it neither triggers offer or answer
\* creation, nor releases the in-flight guard, nor marks the new room as
\* existing.
C36_StaleNeverApplied == [][C36_DrainStep]_vars

\* C21: the signaling client never has two document fetches outstanding at
\* once: a fetch is issued only after the result of the previous one has been
\* received, across any sequence of create, join, exit, disconnect and poll.
C21_OneFetchOutstanding == \A i \in Inst : Outstanding(i) <= 1

\* C22: a host issues no document fetch for its room until the room-creation
\* write started by its current create_lobby() has completed, also when the
\* instance has hosted and exited an earlier lobby before.
C22_NoFetchBeforeCreated == \A i \in Inst : OwnFetches(i) # {} => Created(i)


----------------------------------------------------------------------------
\* Polling: h and a stay in their lobby and keep fetching the room document;
\* any fetch may fail.

InitPoll ==
    Lobby({"a"},
          [create |-> NoBudget, join |-> NoBudget, exit |-> NoBudget,
           kick |-> NoBudget, chat |-> NoBudget, data |-> NoBudget,
           change |-> NoBudget, states |-> NoBudget, events |-> NoBudget,
           ping |-> NoBudget])

SystemsPoll(i) == firestore_pump(i)

NextPoll ==
    \/ \E i \in Inst : SystemsPoll(i)
    \/ \E i \in Inst : frame_end(i, ENABLED SystemsPoll(i))
    \/ time_passes
    \/ \E i \in Inst : task_read_room(i)
    \/ \E i \in Inst : task_read_room_failed(i)

SpecPoll == InitPoll /\ [][NextPoll]_vars

\* every instance keeps running frames, the clock advances, and the browser
\* settles every fetch, with a document or without
FairPoll ==
    /\ \A i \in Inst : SF_vars(SystemsPoll(i))
    /\ WF_vars(\E i \in Inst : frame_end(i, ENABLED SystemsPoll(i)))
    /\ SF_vars(time_passes)
    /\ \A i \in Inst : SF_vars(task_read_room(i) \/ task_read_room_failed(i))

SpecPollFair == SpecPoll /\ FairPoll

\* the results waiting for i are all failures
OnlyFailures(i) ==
    /\ inbox[i] # <<>>
    /\ \A k \in 1..Len(inbox[i]) : inbox[i][k] = Null

C28_FailureStep ==
    \A i \in Inst :
        (Ran(i, "firestore_pump") /\ OnlyFailures(i))
            => /\ UNCHANGED <<sesV, sig, id_alloc, net_conns, app>>
               /\ msgs'[i] = msgs[i]
               /\ shared'[i].room_exists = shared[i].room_exists
               /\ shared'[i].in_flight => Outstanding(i)' = Outstanding(i) + 1

C28_NotSurfaced == [][C28_FailureStep]_vars

C28_Retried ==
    \A i \in Inst :
        (OnlyFailures(i) /\ Outstanding(i) = 0)
            ~> (Outstanding(i) > 0 \/ sig[i].room_code = "")

\* C28: a failed, malformed or not-found fetch response is never surfaced to
\* the consumer (no update-queue event, no session state or phase change, no
\* message) and does not stop polling: the pump that drains it releases the
\* in-flight guard and, while the instance remains in the room, a later fetch
\* is eventually issued.
C28_FailureNotSurfaced == C28_NotSurfaced /\ C28_Retried

\* a fetch of a has failed, its next fetch is out, and the consumer of a saw nothing
C28_Witness ==
    /\ log.null_seen["a"]
    /\ Outstanding("a") = 1
    /\ updates["a"] = <<>>
    /\ lobby_state["a"] = InLobby

----------------------------------------------------------------------------
\* Player data: a lobby of the host, a and b in which both clients change their
\* player data and the host kicks a client.

InitData ==
    Lobby({"a", "b"},
          [create |-> NoBudget, join |-> NoBudget, exit |-> NoBudget,
           kick |-> Once("h"), chat |-> NoBudget,
           data |-> [i \in Inst |-> IF i \in Clients THEN 1 ELSE 0],
           change |-> NoBudget, states |-> NoBudget, events |-> NoBudget,
           ping |-> NoBudget])

SystemsData(i) ==
    \/ broadcast_roster_on_host(i)
    \/ handle_client_data_update_on_host(i)
    \/ intercept_data_messages(i)
    \/ encode_outgoing(i)
    \/ decode_incoming(i)
    \/ handle_send_requests(i)
    \/ handle_kick_requests(i)
    \/ log_incoming_data(i)
    \/ handle_send_data(i)
    \/ pump_js_callbacks(i)
    \/ handle_close_connection(i)
    \/ on_external_lobby_exit(i)
    \/ on_lobby_exit_cleanup(i)
    \/ handle_connection_closed(i)
    \/ handle_close_all(i)

NextData ==
    \/ \E i \in Inst : SystemsData(i)
    \/ \E i \in Inst : frame_end(i, ENABLED SystemsData(i))
    \/ remote_closed
    \/ \E c \in 1..2 : kick("h", c)
    \/ \E i \in Clients : \E d \in PlayerDataValues : set_local_player_data(i, d)

SpecData == InitData /\ [][NextData]_vars

\* the positions of the roster of i that hold peer id
EntriesOf(i, id) == {k \in 1..Len(state[i].players) : state[i].players[k].id = id}

\* the roster of the host holds no two entries with the same peer id
C30_NoDuplicates ==
    \A i \in Inst : state[i].is_host =>
        \A k \in 1..Len(state[i].players) :
            EntriesOf(i, state[i].players[k].id) = {k}

\* handle_client_data_update_on_host leaves one entry with the last data for
\* every client it heard from, leaves the other entries as they were, and
\* writes the full roster for all clients
C30_UpdateStep ==
    \A i \in Inst : Ran(i, "handle_client_data_update_on_host") =>
        LET r == msgs[i]["OnInternalClientData@handle_client_data_update_on_host"]
            ups == SelectSeq(r, LAMBDA x : x.data.k = "ClientDataUpdate")
            cids == {ups[k].cid : k \in 1..Len(ups)}
            last(c) == ups[CHOOSE k \in 1..Len(ups) :
                               /\ ups[k].cid = c
                               /\ \A j \in (k + 1)..Len(ups) : ups[j].cid # c].data.data
            others(ps) == SelectSeq(ps, LAMBDA p : \A c \in cids : p.id # ClientId(c))
            sent == Routed(i, "OnSendToAllReq")
        IN  /\ \A c \in cids :
                   \E k \in 1..Len(state'[i].players) :
                       /\ {j \in 1..Len(state'[i].players) :
                              state'[i].players[j].id = ClientId(c)} = {k}
                       /\ state'[i].players[k].data = last(c)
            /\ others(state'[i].players) = others(state[i].players)
            /\ Len(state'[i].players)
                   = Len(state[i].players)
                       + Cardinality({c \in cids : EntriesOf(i, ClientId(c)) = {}})
            /\ Len(sent) = Len(ups)
            /\ ups # <<>> =>
                   Last(sent) = HostLobbyInfoUpdate(get_players(state'[i], TRUE))

\* C30: when the host processes a player-data update of client c, the roster
\* afterwards has exactly one entry for c, holding the new data (inserted if
\* absent, overwritten otherwise), the other entries are unchanged, and the
\* full roster is broadcast to all clients; the roster of the host never holds
\* two entries with the same peer id.
C30_UpsertAndBroadcast == []C30_NoDuplicates /\ [][C30_UpdateStep]_vars

\* the host has overwritten the entry of a client whose data changed, and
\* every client holds the roster it broadcast
C30_Witness ==
    /\ \E k \in 1..Len(state["h"].players) : state["h"].players[k].data # DefaultPlayerData
    /\ \A c \in Clients : lobby_state[c] = InLobby
    /\ \A c \in Clients : state[c].players = get_players(state["h"], TRUE)

\* the host is about to insert an entry for a client that its roster lacks
C30_Insert ==
    \E k \in 1..Len(msgs["h"]["OnInternalClientData@handle_client_data_update_on_host"]) :
        LET x == msgs["h"]["OnInternalClientData@handle_client_data_update_on_host"][k]
        IN  x.data.k = "ClientDataUpdate" /\ EntriesOf("h", ClientId(x.cid)) = {}

----------------------------------------------------------------------------
\* Losing the host: a lobby of the host, a and b in which the host either kicks
\* a client or leaves, and a connection fails on either end.

MaxFailures == 1
Failures == Cardinality({ep \in DOMAIN browser : browser[ep].ready_state = "failed"})

InitDrop ==
    \E call \in {"exit", "kick"} :
        Lobby({"a", "b"},
              [create |-> NoBudget, join |-> NoBudget,
               exit |-> IF call = "exit" THEN Once("h") ELSE NoBudget,
               kick |-> IF call = "kick" THEN Once("h") ELSE NoBudget,
               chat |-> NoBudget, data |-> NoBudget, change |-> NoBudget,
               states |-> NoBudget, events |-> NoBudget, ping |-> NoBudget])

SystemsDrop(i) ==
    \/ state_update_system(i)
    \/ broadcast_roster_on_host(i)
    \/ intercept_data_messages(i)
    \/ encode_outgoing(i)
    \/ decode_incoming(i)
    \/ handle_send_requests(i)
    \/ handle_kick_requests(i)
    \/ log_incoming_data(i)
    \/ handle_send_data(i)
    \/ pump_js_callbacks(i)
    \/ handle_close_connection(i)
    \/ on_external_lobby_exit(i)
    \/ handle_exit_requests(i)
    \/ on_lobby_exit_cleanup(i)
    \/ handle_connection_closed(i)
    \/ handle_close_all(i)

NextDrop ==
    \/ \E i \in Inst : SystemsDrop(i)
    \/ \E i \in Inst : frame_end(i, ENABLED SystemsDrop(i))
    \/ remote_closed
    \/ Failures < MaxFailures /\ connection_failed
    \/ exit_lobby("h")
    \/ \E c \in 1..2 : kick("h", c)

SpecDrop == InitDrop /\ [][NextDrop]_vars

\* The applications keep running frames and the browser keeps delivering the
\* close of a channel to the other end: while a system has input, a frame is
\* open or a close is undelivered, one of them takes a step.
FairDrop ==
    WF_vars(\/ \E i \in Inst : SystemsDrop(i)
            \/ \E i \in Inst : frame_end(i, ENABLED SystemsDrop(i))
            \/ remote_closed)

SpecDropFair == SpecDrop /\ FairDrop

\* a closure of the browser has marked a connection of i as closed
MarkedClosed(i) == \E id \in DOMAIN ctx[i] : ctx[i][id].pending_closed

\* the transport state and the connections of i are torn down
TornDown(i) ==
    /\ sig[i] = DefaultSig
    /\ shared[i] = DefaultShared
    /\ net_conns[i] = {}
    /\ ctx[i] = EmptyMap
    /\ \A ep \in DOMAIN browser : ep[1] = i => browser[ep].ready_state \in {"closed", "failed"}

ExitedDisconnected(i) ==
    /\ LobbyExited(Disconnected) \in SeqToSet(log.pushed[i])
    /\ lobby_state[i] = OutOfLobby
    /\ state[i].lobby_code = ""
    /\ TornDown(i)

\* i has asked to leave: its request is pending or was handled
AskedToLeave(i) == log.exited[i] \/ \E c \in OnExitLobbyReq : msgs[i][c] # <<>>

\* until the host itself asks to leave, it is in the lobby, it is the host, and
\* it was not told that it has left
C20_HostStays ==
    ~AskedToLeave("h") =>
        /\ lobby_state["h"] = InLobby
        /\ state["h"].is_host
        /\ sig["h"].is_host
        /\ \A k \in 1..Len(log.pushed["h"]) : log.pushed["h"][k].u # "LobbyExited"

\* C20: when the connection of a client to the host closes (the host left, the
\* host or the network failed, the client was kicked), the client eventually
\* has enqueued LobbyExited{Disconnected}, is OutOfLobby, and its transport
\* state and connections are torn down; a host whose client disconnects is not
\* exited and stays InLobby.
C20_ClientExitsHostStays ==
    /\ \A c \in Clients : MarkedClosed(c) ~> ExitedDisconnected(c)
    /\ []C20_HostStays

\* a client was torn down after its connection closed
C20_Witness == \E c \in Clients : ExitedDisconnected(c)

\* the host has pruned a client that disconnected and is still in the lobby
C20_HostPruned ==
    /\ budget.kick["h"] > 0
    /\ lobby_state["h"] = InLobby
    /\ Cardinality(sig["h"].joined_clients) < 2

----------------------------------------------------------------------------
\* Answering: h creates a lobby and a joins it; the peer connection the host
\* answers with may fail before the data channel opens.

SystemsAnswer(i) ==
    \/ Core(i) \/ Signaling(i) \/ Rtc(i)
    \/ handle_connection_closed(i)

\* the connections the host allocates before the exploration stops
MaxConnections == 2

NextAnswer ==
    /\ id_alloc["h"] < MaxConnections
    /\ \/ \E i \in Inst : SystemsAnswer(i)
       \/ \E i \in Inst : frame_end(i, ENABLED SystemsAnswer(i))
       \/ time_passes
       \/ Negotiation
       \/ Failures < MaxFailures /\ negotiation_failed("h")
       \/ create_lobby("h")
       \/ \E code \in KnownCodes : join_lobby("a", code)

SpecAnswer == InitJoin /\ [][NextAnswer]_vars

\* C24: each offer entry in the room document is answered at most once: for a
\* given client id the host allocates at most one answer connection and writes
\* answers[clientId] at most once, and a client writes offers[clientId] at most
\* once.
C24_AnsweredOnce ==
    /\ \A cid \in BagToSet(log.answered) : CopiesIn(cid, log.answered) <= 1
    /\ \A w \in BagToSet(log.written) : CopiesIn(w, log.written) <= 1

----------------------------------------------------------------------------
\* The codec on the wire: one message written by the host or by the client of
\* a lobby travels through encode_outgoing, the transport and decode_incoming.

F32Values == {Finite(0), Finite(1), NaN, Infinity}
TransformValues ==
    { [translation |-> <<x, Finite(0), Finite(0)>>,
       rotation |-> <<Finite(0), Finite(0), Finite(0), r>>,
       scale |-> <<Finite(1), Finite(1), z>>] : x \in F32Values, r \in F32Values, z \in F32Values }
InputValues == [forward : BOOLEAN, backward : BOOLEAN, left : BOOLEAN, right : BOOLEAN]
IdValues == {Host, ClientId(0), ClientId(1)}
RosterValues ==
    {<<>>} \cup { <<PlayerInfo(x, d)>> : x \in IdValues, d \in PlayerDataValues }
        \cup { <<PlayerInfo(Host, d), PlayerInfo(ClientId(1), e)>> :
                   d \in PlayerDataValues, e \in PlayerDataValues }

\* the payloads of sync messages: a state, an event of either type, and a text
\* that is neither
MaxIndex == 2
SyncPayloads ==
    { EncodeState(v) : v \in StateValues }
        \cup { EncodeEvent(E, 0) : E \in {OnNetworkedTransformUpdate, OnFinishTimeUpdate} }
        \cup { EncodeString("x") }

\* what a client writes for the host
ToHostValues ==
    { ClientLobbyChatMessage(t, ClientId(0)) : t \in Texts }
        \cup { ClientInput(x) : x \in InputValues }
        \cup { ClientDataUpdate(d) : d \in PlayerDataValues }
        \cup { PingRequest(f) : f \in F32Values }
\* what the host writes for every client
ToAllValues ==
    { ClientLobbyChatMessage(t, Host) : t \in Texts }
        \cup { HostLobbyInfoUpdate(ps) : ps \in RosterValues }
        \cup { StateSync(k, t) : k \in 0..MaxIndex, t \in SyncPayloads }
        \cup { EventSync(k, t) : k \in 0..MaxIndex, t \in SyncPayloads }
        \cup { HostInstantiation([transform |-> x, instantiation |-> <<"Kart", id>>]) :
                   x \in TransformValues, id \in IdValues }

\* the kinds only the host sends, and the kinds only a client sends
HostOnly(m) == m.k \in {"HostLobbyInfoUpdate", "StateSync", "EventSync", "HostInstantiation"}
ClientOnly(m) == m.k \in {"ClientInput", "ClientDataUpdate"}

InitCodec ==
    LET none == [create |-> NoBudget, join |-> NoBudget, exit |-> NoBudget,
                 kick |-> NoBudget, chat |-> NoBudget, data |-> NoBudget,
                 change |-> NoBudget, states |-> NoBudget, events |-> NoBudget,
           ping |-> NoBudget]
    IN  \/ \E m \in ToHostValues : LobbySending({"a"}, none, "a", "OnSendToHostReq", <<m>>)
        \/ \E m \in ToAllValues : LobbySending({"a"}, none, "h", "OnSendToAllReq", <<m>>)
        \/ \E m \in ToAllValues : \E t \in Texts :
               LobbySending({"a"}, none, "h", "OnSendToAllReq",
                            <<m, ClientLobbyChatMessage(t, Host)>>)
        \/ \E m \in {x \in ToAllValues : HostOnly(x)} :
               LobbySending({"a"}, none, "a", "OnSendToHostReq", <<m>>)
        \/ \E m \in {x \in ToHostValues : ClientOnly(x)} :
               LobbySending({"a"}, none, "h", "OnSendToAllReq", <<m>>)

SystemsCodec(i) ==
    \/ intercept_data_messages(i)
    \/ encode_outgoing(i)
    \/ handle_send_requests(i)
    \/ handle_send_data(i)
    \/ pump_js_callbacks(i)
    \/ log_incoming_data(i)
    \/ decode_incoming(i)

NextCodec ==
    \/ \E i \in Inst : SystemsCodec(i)
    \/ \E i \in Inst : frame_end(i, ENABLED SystemsCodec(i))

SpecCodec == InitCodec /\ [][NextCodec]_vars

\* the messages written: the ones of the initial state, with the sender tag
\* of the relay put in place of the one a client wrote, and the echo of a ping
Written ==
    SeqToSet(log.sample)
        \cup { ClientLobbyChatMessage(m.text, ClientId(1)) :
                   m \in {x \in SeqToSet(log.sample) : x.k = "ClientLobbyChatMessage"} }

\* the frames that arrived and the messages decoded from them
ArrivedTexts ==
    { msgs["h"]["OnTransportIncomingFromClient"][k].text :
          k \in 1..Len(msgs["h"]["OnTransportIncomingFromClient"]) }
        \cup SeqToSet(msgs["a"]["OnTransportIncomingFromHost"])
DecodedMessages ==
    { msgs["h"]["OnInternalClientData@intercept_data_messages"][k].data :
          k \in 1..Len(msgs["h"]["OnInternalClientData@intercept_data_messages"]) }
        \cup SeqToSet(msgs["a"]["OnInternalHostData"])

\* C14: every P2PData value survives the wire: the text that arrives for a
\* message m decodes to m, nested payloads included, and what decode_incoming
\* hands on is m.
C14_RoundTrip ==
    /\ \A t \in ArrivedTexts :
           IsSome(DecodeP2PData(t)) /\ Unwrap(DecodeP2PData(t)) \in Written
    /\ \A m \in DecodedMessages : m \in Written

\* decode_incoming routes the frames that decode, in the order of arrival, and
\* nothing for the others; it changes nothing else
C18_DecodeStep ==
    \A i \in Inst : Ran(i, "decode_incoming") =>
        LET from_client == msgs[i]["OnTransportIncomingFromClient"]
            from_host == msgs[i]["OnTransportIncomingFromHost"]
            okc == SelectSeq(from_client, LAMBDA x : IsSome(DecodeP2PData(x.text)))
            okh == SelectSeq(from_host, LAMBDA t : IsSome(DecodeP2PData(t)))
        IN  /\ Routed(i, "OnInternalHostData")
                   = MapSeq(okh, LAMBDA t : Unwrap(DecodeP2PData(t)))
            /\ \A c \in OnInternalClientData :
                   Routed(i, c) = MapSeq(okc, LAMBDA x : [cid |-> x.cid,
                                                          data |-> Unwrap(DecodeP2PData(x.text))])
            /\ \A c \in Chans \ (OnInternalClientData
                                     \cup {"OnInternalHostData", "OnTransportIncomingFromClient",
                                           "OnTransportIncomingFromHost"}) :
                   msgs'[i][c] = msgs[i][c]
            /\ msgs'[i]["OnTransportIncomingFromClient"] = <<>>
            /\ msgs'[i]["OnTransportIncomingFromHost"] = <<>>
            /\ UNCHANGED <<sesV, trV, rtcV, envV, app>>

\* C18: an incoming frame that does not decode to a P2PData value is dropped:
\* no message is routed for it, the session, the roster and the update queue do
\* not change, nothing is sent, and the frames after it are still processed.
C18_BadFrameDropped == [][C18_DecodeStep]_vars

\* a frame that does not decode has arrived at the client before one that does
C18_Witness ==
    LET from_host == msgs["a"]["OnTransportIncomingFromHost"]
    IN  /\ Len(from_host) = 2
        /\ ~IsSome(DecodeP2PData(from_host[1]))
        /\ IsSome(DecodeP2PData(from_host[2]))

\* the sync message m finds its closure in the registries of a, and the closure
\* accepts its payload
ValidSync(a, m) ==
    CASE m.k = "StateSync" ->
            /\ m.index < Len(a.states.readers)
            /\ a.states.readers[m.index + 1] = AppStateType
            /\ IsSome(DecodeState(m.payload))
      [] m.k = "EventSync" ->
            /\ m.index < Len(a.events.readers)
            /\ IsSome(DecodeEvent(a.events.readers[m.index + 1], m.payload))
      [] OTHER -> FALSE

\* intercept_data_messages leaves the application state and the emitted events
\* alone unless a sync message of the host is valid, and when the host sent
\* nothing but sync messages that are not, it changes nothing at all
C19_SyncStep ==
    \A i \in Inst : Ran(i, "intercept_data_messages") =>
        LET fromHost == msgs[i]["OnInternalHostData"]
            fromClient == msgs[i]["OnInternalClientData@intercept_data_messages"]
        IN  /\ (\A k \in 1..Len(fromHost) : ~ValidSync(app[i], fromHost[k]))
                   => app'[i] = app[i]
            /\ (/\ fromClient = <<>>
                /\ \A k \in 1..Len(fromHost) :
                       /\ fromHost[k].k \in {"StateSync", "EventSync"}
                       /\ ~ValidSync(app[i], fromHost[k]))
                   => /\ UNCHANGED <<sesV, trV, rtcV, envV, app>>
                      /\ \A c \in Chans \ {"OnInternalHostData"} : msgs'[i][c] = msgs[i][c]

\* C19: a state-sync or event-sync message whose index has no registered
\* closure, or whose payload does not decode to the registered type, is ignored
\* by the client: no state is set, no event is emitted, nothing else changes.
C19_BadSyncIgnored == [][C19_SyncStep]_vars

\* the client is about to handle a sync message whose index has no closure
C19_Witness ==
    \E k \in 1..Len(msgs["a"]["OnInternalHostData"]) :
        LET m == msgs["a"]["OnInternalHostData"][k]
        IN  /\ m.k \in {"StateSync", "EventSync"}
            /\ m.index >= Len(IF m.k = "StateSync" THEN app["a"].states.readers
                              ELSE app["a"].events.readers)

\* the client is about to handle a sync message whose payload its closure rejects
C19_BadPayload ==
    \E k \in 1..Len(msgs["a"]["OnInternalHostData"]) :
        LET m == msgs["a"]["OnInternalHostData"][k]
        IN  /\ m.k = "EventSync"
            /\ m.index < Len(app["a"].events.readers)
            /\ ~ValidSync(app["a"], m)

\* the client has applied a state and emitted an event of a valid sync message
C19_Applied == app["a"].cur # InitialStateValue \/ app["a"].emitted # <<>>

\* intercept_data_messages changes nothing but its own readers when the host
\* hears only host-only kinds from its clients, or a client hears only
\* client-only kinds from the host
C29_InterceptStep ==
    \A i \in Inst : Ran(i, "intercept_data_messages") =>
        LET fromHost == msgs[i]["OnInternalHostData"]
            fromClient == msgs[i]["OnInternalClientData@intercept_data_messages"]
            ignored ==
                \/ /\ state[i].is_host
                   /\ fromHost = <<>>
                   /\ \A k \in 1..Len(fromClient) : HostOnly(fromClient[k].data)
                \/ /\ ~state[i].is_host
                   /\ fromClient = <<>>
                   /\ \A k \in 1..Len(fromHost) : ClientOnly(fromHost[k])
        IN  ignored =>
                /\ UNCHANGED <<sesV, trV, rtcV, envV, app>>
                /\ \A c \in Chans \ {"OnInternalHostData",
                                     "OnInternalClientData@intercept_data_messages"} :
                       msgs'[i][c] = msgs[i][c]

\* C29: roster broadcasts, state-sync, event-sync and instantiation messages
\* that the host receives from a client leave its session state, roster,
\* registered states and update queue unchanged and are not relayed; input and
\* player-data messages that a client receives from the host are ignored.
C29_MisdirectedIgnored == [][C29_InterceptStep]_vars

\* the host is about to handle a host-only message of a client
C29_Witness ==
    /\ state["h"].is_host
    /\ msgs["h"]["OnInternalClientData@intercept_data_messages"] # <<>>
    /\ \A k \in 1..Len(msgs["h"]["OnInternalClientData@intercept_data_messages"]) :
           HostOnly(msgs["h"]["OnInternalClientData@intercept_data_messages"][k].data)

\* a client is about to handle a client-only message of the host
C29_AtClient ==
    /\ msgs["a"]["OnInternalHostData"] # <<>>
    /\ \A k \in 1..Len(msgs["a"]["OnInternalHostData"]) :
           ClientOnly(msgs["a"]["OnInternalHostData"][k])

----------------------------------------------------------------------------
\* Registry: an application registers its synced state types, or its synced
\* event types, one after the other, and may register a type again

\* distinct types an application registers
MaxTypes == 257

InitRegistry ==
    \E kind \in {"states", "events"} :
        Fresh([create |-> NoBudget, join |-> NoBudget, exit |-> NoBudget, kick |-> NoBudget,
               chat |-> NoBudget, data |-> NoBudget, change |-> NoBudget,
               states |-> [NoBudget EXCEPT !["h"] = IF kind = "states" THEN MaxTypes ELSE 0],
               events |-> [NoBudget EXCEPT !["h"] = IF kind = "events" THEN MaxTypes ELSE 0],
               ping |-> NoBudget])

NextRegistry ==
    \/ \E i \in Inst : \E S \in 0..MaxTypes : init_networked_state(i, S)
    \/ \E i \in Inst : \E E \in 1..MaxTypes : app_register_event(i, E)

SpecRegistry == InitRegistry /\ [][NextRegistry]_vars

Registers == {app[i].states : i \in Inst} \cup {app[i].events : i \in Inst}

\* C13: in both registries the N registered types hold the indices 0..N-1 in
\* registration order, no index belongs to two types, and the closure at
\* position i belongs to the type with index i.
C13_IndicesInRegistrationOrder ==
    \A reg \in Registers :
        /\ DOMAIN reg.indexes = SeqToSet(reg.readers)
        /\ \A k \in 1..Len(reg.readers) : reg.indexes[reg.readers[k]] = k - 1
        /\ \A S, T \in DOMAIN reg.indexes : reg.indexes[S] = reg.indexes[T] => S = T

====
